---- MODULE Spec2Model ----
(***************************************************************************)
(* A model of the MyHDL simulation data model: signals (_Signal.py), their *)
(* waiter lists, delayed signals, the delta-cycle scheduler that drives    *)
(* them, and the intbv value type (_intbv.py).                             *)
(***************************************************************************)
EXTENDS Integers, Sequences, FiniteSets, TLC

\* ------------------------------------------------------------ bounds

\* largest value user code writes to a signal
MaxVal == 2
\* largest argument of a delay(t) trigger
MaxDelay == 1
\* largest duration T of run(T)
MaxDuration == 1
\* most next-writes a process makes between two yields
MaxWrites == 1

\* ------------------------------------------------------------ universe

Sigs == {"a", "b"}
Procs == {"p1", "p2"}
Vals == 0..MaxVal
NoSig == "none"

\* a trigger: the event / posedge / negedge list of a signal, or a delay
ListTriggers == [k : {"ev", "pos", "neg"}, s : Sigs, t : {0}]
DelayTriggers == [k : {"delay"}, s : {NoSig}, t : 0..MaxDelay]
Triggers == ListTriggers \cup DelayTriggers

\* what a process may yield in a design whose signals are all plain. Process
\* p1 parks on a list of signal a or on a clause of two triggers (an edge of
\* a and the event list of b); process p2 parks on the event list of a signal
\* or on a delay of MaxDelay
PlainClauses(p) ==
    IF p = "p1"
    THEN {{x} : x \in {y \in ListTriggers : y.s = "a"}}
         \cup {{[k |-> "pos", s |-> "a", t |-> 0], [k |-> "ev", s |-> "b", t |-> 0]}}
    ELSE {{[k |-> "ev", s |-> "a", t |-> 0]},
          {[k |-> "ev", s |-> "b", t |-> 0]},
          {[k |-> "delay", s |-> NoSig, t |-> MaxDelay]}}

\* what a process may yield in the design with the delayed signal b: one list
\* trigger of b, or a delay
DelayedClauses ==
    {{x} : x \in {y \in ListTriggers : y.s = "b"} \cup DelayTriggers}

\* a waiter object: the process it resumes and its hasRun flag
Waiter(p, h) == [p |-> p, hasRun |-> h]
NoWaiter == [p |-> "none", hasRun |-> TRUE]

Range(f) == {f[i] : i \in DOMAIN f}

\* ------------------------------------------------------------ state

VARIABLES
    sigs,           \* per signal: the fields of the _Signal object
    siglist,        \* _siglist: signals queued for update in this delta
    futureEvents,   \* _futureEvents: (time, waiter | _SignalWrap) in insertion order
    waiters_ready,  \* waiters to execute in this delta
    now,            \* simulation time
    awaited,        \* per process: the clause it is parked on ({} when finished)
    running,        \* state of the run(T) call
    maxTime,        \* now + T at the call of run(T)
    last,           \* the step taken last, with the state it was taken in
    regs,           \* per signal: the waiters registered on it, in registration order
    script,         \* the test bench of the delayed-signal scenario and its position
    bv,             \* an intbv object: _val, _min, _max, and how the last operation ended
    obj             \* another object under test (a Constant, a block, ...) and its last operation

vars == <<sigs, siglist, futureEvents, waiters_ready, now, awaited, running, maxTime, last, regs,
          script, bv, obj>>

\* ------------------------------------------------------------ signals

\* Python truth value of a signal value (bool(val))
Truthy(v) == v # 0

\* _Signal.__init__ / _DelayedSignal.__init__: a signal with initial value v
NewSignal(v, type, delayed, delay) ==
    [val |-> v, next |-> v, type |-> type,
     ev |-> <<>>, pos |-> <<>>, neg |-> <<>>,
     delayed |-> delayed, delay |-> delay, nextZ |-> v, timeStamp |-> 0]

\* a factory that takes any delay
Signal_anyDelay(v, type, hasDelay, delay) ==
    [ok |-> TRUE, sig |-> NewSignal(v, type, hasDelay, IF hasDelay THEN delay ELSE 0)]

\* the factory Signal(val, delay): a _Signal when no delay is given, else a
\* _DelayedSignal, a negative delay being refused
Signal(v, type, hasDelay, delay) ==
    IF hasDelay
    THEN IF delay < 0
         THEN [ok |-> FALSE, sig |-> NewSignal(v, type, FALSE, 0)]
         ELSE [ok |-> TRUE, sig |-> NewSignal(v, type, TRUE, delay)]
    ELSE [ok |-> TRUE, sig |-> NewSignal(v, type, FALSE, 0)]

\* purge that drops nothing
WaiterList_purge_keep(wl) == wl

\* _WaiterList.purge: drop the waiters that have run
WaiterList_purge(wl) == SelectSeq(wl, LAMBDA w : ~w.hasRun)

\* _Signal._setNextBit: only boolean values are accepted
setNextBit(sg, v) ==
    IF v \notin {0, 1}
    THEN [ok |-> FALSE, sig |-> sg]
    ELSE [ok |-> TRUE, sig |-> [sg EXCEPT !.next = v]]

\* _Signal._setNextInt: any integer is accepted
setNextInt(sg, v) == [ok |-> TRUE, sig |-> [sg EXCEPT !.next = v]]

\* the _setNextVal chosen by _Signal.__init__ from the type of the initial value
setNextVal(sg, v) == IF sg.type = "bit" THEN setNextBit(sg, v) ELSE setNextInt(sg, v)

\* a next setter that writes through to the current value
Signal_next_set_through(h, s, v) ==
    LET r == setNextVal(h.sigs[s], v) IN
    IF ~r.ok
    THEN [h EXCEPT !.ok = FALSE]
    ELSE [h EXCEPT !.sigs[s] = [r.sig EXCEPT !.val = v], !.siglist = Append(@, s)]

\* _Signal.next setter on the state h = [sigs, siglist, ok]: validate and store
\* the value, then queue the signal; a raising setter queues nothing
Signal_next_set(h, s, v) ==
    LET r == setNextVal(h.sigs[s], v) IN
    IF ~r.ok
    THEN [h EXCEPT !.ok = FALSE]
    ELSE [h EXCEPT !.sigs[s] = r.sig, !.siglist = Append(@, s)]

\* _update that never collects the edge lists
Signal_update_noEdges(sg) ==
    IF sg.val # sg.next
    THEN [sig |-> [sg EXCEPT !.ev = <<>>, !.val = sg.next], waiters |-> sg.ev]
    ELSE [sig |-> sg, waiters |-> <<>>]

\* _update that wakes the waiters but leaves the current value alone
Signal_update_noAssign(sg) ==
    IF sg.val # sg.next
    THEN LET rising == ~Truthy(sg.val) /\ Truthy(sg.next)
             falling == ~rising /\ ~Truthy(sg.next) /\ Truthy(sg.val)
         IN [sig |-> [sg EXCEPT !.ev = <<>>,
                                !.pos = IF rising THEN <<>> ELSE @,
                                !.neg = IF falling THEN <<>> ELSE @],
             waiters |-> sg.ev \o (IF rising THEN sg.pos ELSE <<>>)
                               \o (IF falling THEN sg.neg ELSE <<>>)]
    ELSE [sig |-> sg, waiters |-> <<>>]

\* _update that collects the edge waiters before the event waiters
Signal_update_edgesFirst(sg) ==
    IF sg.val # sg.next
    THEN LET rising == ~Truthy(sg.val) /\ Truthy(sg.next)
             falling == ~rising /\ ~Truthy(sg.next) /\ Truthy(sg.val)
         IN [sig |-> [sg EXCEPT !.ev = <<>>,
                                !.pos = IF rising THEN <<>> ELSE @,
                                !.neg = IF falling THEN <<>> ELSE @,
                                !.val = sg.next],
             waiters |-> (IF rising THEN sg.pos ELSE <<>>)
                         \o (IF falling THEN sg.neg ELSE <<>>) \o sg.ev]
    ELSE [sig |-> sg, waiters |-> <<>>]

\* _update that takes every change for a rising edge
Signal_update_anyEdge(sg) ==
    IF sg.val # sg.next
    THEN [sig |-> [sg EXCEPT !.ev = <<>>, !.pos = <<>>, !.val = sg.next],
          waiters |-> sg.ev \o sg.pos]
    ELSE [sig |-> sg, waiters |-> <<>>]

\* _update that wakes the event waiters of every queue entry and keeps the list
Signal_update_requeue(sg) ==
    [sig |-> [sg EXCEPT !.val = sg.next], waiters |-> sg.ev]

\* _update that does not compare the current value with next
Signal_update_unconditional(sg) ==
    LET rising == ~Truthy(sg.val) /\ Truthy(sg.next)
        falling == ~rising /\ ~Truthy(sg.next) /\ Truthy(sg.val)
    IN [sig |-> [sg EXCEPT !.ev = <<>>,
                           !.pos = IF rising THEN <<>> ELSE @,
                           !.neg = IF falling THEN <<>> ELSE @,
                           !.val = sg.next],
        waiters |-> sg.ev \o (IF rising THEN sg.pos ELSE <<>>)
                          \o (IF falling THEN sg.neg ELSE <<>>)]

\* _Signal._update: returns the updated signal and the waiters it wakes
Signal_update(sg) ==
    IF sg.val # sg.next
    THEN LET rising == ~Truthy(sg.val) /\ Truthy(sg.next)
             falling == ~rising /\ ~Truthy(sg.next) /\ Truthy(sg.val)
         IN [sig |-> [sg EXCEPT !.ev = <<>>,
                                !.pos = IF rising THEN <<>> ELSE @,
                                !.neg = IF falling THEN <<>> ELSE @,
                                !.val = sg.next],
             waiters |-> sg.ev \o (IF rising THEN sg.pos ELSE <<>>)
                               \o (IF falling THEN sg.neg ELSE <<>>)]
    ELSE [sig |-> sg, waiters |-> <<>>]

\* _SignalWrap: a scheduled application of a value to a delayed signal
SignalWrap(time, s, next, timeStamp) ==
    [time |-> time, kind |-> "wrap", w |-> NoWaiter,
     sig |-> s, next |-> next, timeStamp |-> timeStamp]

\* a waiter scheduled by a delay trigger
WaiterEvent(time, w) ==
    [time |-> time, kind |-> "waiter", w |-> w,
     sig |-> NoSig, next |-> 0, timeStamp |-> 0]

\* a delayed _update with the sign of the delay wrong
DelayedSignal_update_early(sg, s, t) ==
    LET ts == IF sg.next # sg.nextZ THEN t ELSE sg.timeStamp IN
    [sig |-> [sg EXCEPT !.timeStamp = ts, !.nextZ = sg.next],
     event |-> SignalWrap(t - sg.delay, s, sg.next, ts)]

\* _DelayedSignal._update at time t: stamps a changed next value and schedules
\* its application; wakes nobody
DelayedSignal_update(sg, s, t) ==
    LET ts == IF sg.next # sg.nextZ THEN t ELSE sg.timeStamp IN
    [sig |-> [sg EXCEPT !.timeStamp = ts, !.nextZ = sg.next],
     event |-> SignalWrap(t + sg.delay, s, sg.next, ts)]

\* an _apply that does not look at the time stamp
DelayedSignal_apply_noStamp(sg, next, timeStamp) ==
    IF sg.val # next
    THEN [sig |-> [sg EXCEPT !.ev = <<>>, !.val = next], waiters |-> sg.ev]
    ELSE [sig |-> sg, waiters |-> <<>>]

\* _DelayedSignal._apply: applies a scheduled value unless it is stale
DelayedSignal_apply(sg, next, timeStamp) ==
    IF timeStamp = sg.timeStamp /\ sg.val # next
    THEN LET rising == ~Truthy(sg.val) /\ Truthy(next)
             falling == ~rising /\ ~Truthy(next) /\ Truthy(sg.val)
         IN [sig |-> [sg EXCEPT !.ev = <<>>,
                                !.pos = IF rising THEN <<>> ELSE @,
                                !.neg = IF falling THEN <<>> ELSE @,
                                !.val = next],
             waiters |-> sg.ev \o (IF rising THEN sg.pos ELSE <<>>)
                               \o (IF falling THEN sg.neg ELSE <<>>)]
    ELSE [sig |-> sg, waiters |-> <<>>]

\* ------------------------------------------------------------ processes and waiters

\* most entries a waiter list may hold, and most scheduled future events,
\* before user code stops adding to them (keeps the state space finite)
MaxList == 2
MaxEvents == 2

EvT(s) == [k |-> "ev", s |-> s, t |-> 0]
PosT(s) == [k |-> "pos", s |-> s, t |-> 0]
NegT(s) == [k |-> "neg", s |-> s, t |-> 0]
DelayT(d) == [k |-> "delay", s |-> NoSig, t |-> d]

\* the waiter object of process p has run: every reference to it sees hasRun set
MarkRun(seq, p) ==
    [i \in DOMAIN seq |-> IF seq[i].p = p THEN Waiter(p, TRUE) ELSE seq[i]]

MarkRunSig(sg, p) ==
    [sg EXCEPT !.ev = MarkRun(@, p), !.pos = MarkRun(@, p), !.neg = MarkRun(@, p)]

MarkRunEvents(fut, p) ==
    [i \in DOMAIN fut |->
        IF fut[i].kind = "waiter" /\ fut[i].w.p = p
        THEN [fut[i] EXCEPT !.w = Waiter(p, TRUE)] ELSE fut[i]]

\* the delay triggers of a clause, scheduled at t + delay
RECURSIVE DelayEvents(_, _, _, _)
DelayEvents(clause, w, t, d) ==
    IF d > MaxDelay THEN <<>>
    ELSE (IF DelayT(d) \in clause THEN <<WaiterEvent(t + d, w)>> ELSE <<>>)
         \o DelayEvents(clause, w, t, d + 1)

\* re-arm waiter w on a yielded clause: append it to every waiter list named
RegisterSig(sg, s, clause, w) ==
    [sg EXCEPT !.ev = IF EvT(s) \in clause THEN Append(@, w) ELSE @,
               !.pos = IF PosT(s) \in clause THEN Append(@, w) ELSE @,
               !.neg = IF NegT(s) \in clause THEN Append(@, w) ELSE @]

\* the next-writes a process makes between two yields; the design with the
\* delayed signal b drives b only
Writes == [s : Sigs, v : Vals]
WriteSeqs == UNION {[1..n -> Writes] : n \in 0..MaxWrites}
WriteSeqsOf(sgs) ==
    IF sgs["b"].delayed
    THEN {ws \in WriteSeqs : \A i \in DOMAIN ws : ws[i].s = "b"}
    ELSE WriteSeqs
ClausesOf(sgs, p) == IF sgs["b"].delayed THEN DelayedClauses ELSE PlainClauses(p)

\* the writes of one process step, in program order, up to the first that raises
RECURSIVE DoWrites(_, _)
DoWrites(h, ws) ==
    IF ws = <<>> \/ ~h.ok THEN h
    ELSE DoWrites(Signal_next_set(h, Head(ws).s, Head(ws).v), Tail(ws))

\* user code keeps the lists and the event queue within the model's bounds
WithinBounds(sgs, fut, sl, clause) ==
    /\ \A s \in Sigs :
        /\ EvT(s) \in clause => Len(sgs[s].ev) < MaxList
        /\ PosT(s) \in clause => Len(sgs[s].pos) < MaxList
        /\ NegT(s) \in clause => Len(sgs[s].neg) < MaxList
    /\ Len(fut) + Cardinality({i \in DOMAIN sl : sgs[sl[i]].delayed})
         + Cardinality(clause \cap DelayTriggers) <= MaxEvents

\* the waiter list of kind k of a signal
ListOf(sg, k) == IF k = "ev" THEN sg.ev ELSE IF k = "pos" THEN sg.pos ELSE sg.neg

\* bookkeeping of the registration order: the registrations of a clause are
\* added, those of a run waiter marked, those of an emptied list and the
\* purged ones removed
RegsAdd(rg, s, clause, w) ==
    rg \o (IF EvT(s) \in clause THEN <<[w |-> w, k |-> "ev"]>> ELSE <<>>)
       \o (IF PosT(s) \in clause THEN <<[w |-> w, k |-> "pos"]>> ELSE <<>>)
       \o (IF NegT(s) \in clause THEN <<[w |-> w, k |-> "neg"]>> ELSE <<>>)
RegsMark(rg, p) ==
    [i \in DOMAIN rg |-> IF rg[i].w.p = p THEN [rg[i] EXCEPT !.w = Waiter(p, TRUE)] ELSE rg[i]]
RegsKeep(rg, sg) == SelectSeq(rg, LAMBDA e : ListOf(sg, e.k) # <<>>)
RegsPurge(rg) == SelectSeq(rg, LAMBDA e : ~e.w.hasRun)

NoSigs == [s \in Sigs |-> NewSignal(0, "int", FALSE, 0)]
NoEvent == SignalWrap(0, NoSig, 0, 0)
Step(kind, p, sg0, sl0, e) ==
    [kind |-> kind, p |-> p, sigs0 |-> sg0, siglist0 |-> sl0, ev |-> e]

\* ------------------------------------------------------------ scheduler

\* the state after the popped waiter w was found runnable: a waiter parked on
\* several triggers is marked hasRun and the process continues with a clone
Resumed(w) ==
    LET p == w.p
        many == Cardinality(awaited[p]) > 1
    IN [sigs |-> IF many THEN [s \in Sigs |-> MarkRunSig(sigs[s], p)] ELSE sigs,
        ready |-> IF many THEN MarkRun(Tail(waiters_ready), p) ELSE Tail(waiters_ready),
        fut |-> IF many THEN MarkRunEvents(futureEvents, p) ELSE futureEvents,
        regs |-> IF many THEN [s \in Sigs |-> RegsMark(regs[s], p)] ELSE regs]

\* step 1, a waiter that has already run: dropped
SkipWaiter ==
    /\ running = "running" /\ waiters_ready # <<>>
    /\ Head(waiters_ready).hasRun
    /\ waiters_ready' = Tail(waiters_ready)
    /\ last' = Step("skip", Head(waiters_ready).p, NoSigs, <<>>, NoEvent)
    /\ UNCHANGED <<script, bv, obj, sigs, siglist, futureEvents, now, awaited, running, maxTime, regs>>

\* step 1: the process runs to its next yield and is re-armed on the clause
ProcYield ==
    /\ running = "running" /\ waiters_ready # <<>>
    /\ ~Head(waiters_ready).hasRun
    /\ LET w == Head(waiters_ready)
           r == Resumed(w)
       IN \E ws \in WriteSeqsOf(sigs), clause \in ClausesOf(sigs, w.p) :
            LET h == DoWrites([sigs |-> r.sigs, siglist |-> siglist, ok |-> TRUE], ws) IN
            /\ h.ok
            /\ WithinBounds(h.sigs, r.fut, h.siglist, clause)
            /\ sigs' = [s \in Sigs |-> RegisterSig(h.sigs[s], s, clause, Waiter(w.p, FALSE))]
            /\ siglist' = h.siglist
            /\ futureEvents' = r.fut \o DelayEvents(clause, Waiter(w.p, FALSE), now, 0)
            /\ waiters_ready' = r.ready
            /\ awaited' = [awaited EXCEPT ![w.p] = clause]
            /\ regs' = [s \in Sigs |-> RegsAdd(r.regs[s], s, clause, Waiter(w.p, FALSE))]
            /\ last' = Step("yield", w.p, NoSigs, <<>>, NoEvent)
    /\ UNCHANGED <<script, bv, obj, now, running, maxTime>>

\* step 1: the process runs to its end (or raises StopSimulation when stop)
ProcEnd(stop) ==
    /\ running = "running" /\ waiters_ready # <<>>
    /\ ~Head(waiters_ready).hasRun
    /\ LET w == Head(waiters_ready)
           r == Resumed(w)
       IN \E ws \in WriteSeqsOf(sigs) :
            LET h == DoWrites([sigs |-> r.sigs, siglist |-> siglist, ok |-> TRUE], ws) IN
            /\ h.ok
            /\ Cardinality({i \in DOMAIN h.siglist : h.sigs[h.siglist[i]].delayed})
                 + Len(r.fut) <= MaxEvents
            /\ sigs' = h.sigs
            /\ siglist' = h.siglist
            /\ futureEvents' = r.fut
            /\ waiters_ready' = r.ready
            /\ awaited' = [awaited EXCEPT ![w.p] = {}]
            /\ regs' = r.regs
            /\ running' = IF stop THEN "stopped" ELSE running
            /\ last' = Step(IF stop THEN "stop" ELSE "finish", w.p, NoSigs, <<>>, NoEvent)
    /\ UNCHANGED <<script, bv, obj, now, maxTime>>

ProcFinish == ProcEnd(FALSE)
ProcStop == ProcEnd(TRUE)

\* step 1: a next-write of the process is rejected by the setter; the error
\* leaves run(T)
ProcRaise ==
    /\ running = "running" /\ waiters_ready # <<>>
    /\ ~Head(waiters_ready).hasRun
    /\ LET w == Head(waiters_ready)
           r == Resumed(w)
       IN \E ws \in WriteSeqsOf(sigs) :
            LET h == DoWrites([sigs |-> r.sigs, siglist |-> siglist, ok |-> TRUE], ws) IN
            /\ ~h.ok
            /\ sigs' = h.sigs
            /\ siglist' = h.siglist
            /\ futureEvents' = r.fut
            /\ waiters_ready' = r.ready
            /\ awaited' = [awaited EXCEPT ![w.p] = {}]
            /\ regs' = r.regs
            /\ running' = "error"
            /\ last' = Step("raise", w.p, NoSigs, <<>>, NoEvent)
    /\ UNCHANGED <<script, bv, obj, now, maxTime>>

\* the _update of every queued signal, in queue order
RECURSIVE UpdateQueued(_, _, _, _, _)
UpdateQueued(sgs, fut, woken, list, t) ==
    IF list = <<>> THEN [sigs |-> sgs, fut |-> fut, waiters |-> woken]
    ELSE LET s == Head(list) IN
         IF sgs[s].delayed
         THEN LET r == DelayedSignal_update(sgs[s], s, t)
              IN UpdateQueued([sgs EXCEPT ![s] = r.sig], Append(fut, r.event),
                              woken, Tail(list), t)
         ELSE LET r == Signal_update(sgs[s])
              IN UpdateQueued([sgs EXCEPT ![s] = r.sig], fut,
                              woken \o r.waiters, Tail(list), t)

\* step 2: update every queued signal, collect the woken waiters, clear the queue
UpdateSignals ==
    /\ running = "running" /\ waiters_ready = <<>> /\ siglist # <<>>
    /\ LET r == UpdateQueued(sigs, futureEvents, <<>>, siglist, now) IN
        /\ sigs' = r.sigs
        /\ futureEvents' = r.fut
        /\ waiters_ready' = r.waiters
        /\ regs' = [s \in DOMAIN regs |-> RegsKeep(regs[s], r.sigs[s])]
    /\ siglist' = <<>>
    /\ last' = Step("update", "none", sigs, siglist, NoEvent)
    /\ UNCHANGED <<script, bv, obj, now, awaited, running, maxTime>>

\* the earliest future event, the first inserted among equals
IsNextEvent(i) ==
    /\ i \in DOMAIN futureEvents
    /\ \A j \in DOMAIN futureEvents :
        \/ futureEvents[j].time > futureEvents[i].time
        \/ (futureEvents[j].time = futureEvents[i].time /\ j >= i)

RemoveAt(seq, i) == SubSeq(seq, 1, i - 1) \o SubSeq(seq, i + 1, Len(seq))

\* before the next event is scheduled the waiter lists are purged
Purged(sgs) ==
    [s \in DOMAIN sgs |-> [sgs[s] EXCEPT !.ev = WaiterList_purge(@),
                                   !.pos = WaiterList_purge(@),
                                   !.neg = WaiterList_purge(@)]]

Idle == running = "running" /\ waiters_ready = <<>> /\ siglist = <<>>

\* step 3: the next future event is a waiter parked on a delay
NextWaiter ==
    /\ Idle
    /\ \E i \in DOMAIN futureEvents :
        /\ IsNextEvent(i)
        /\ futureEvents[i].time <= maxTime
        /\ futureEvents[i].kind = "waiter"
        /\ now' = futureEvents[i].time
        /\ futureEvents' = RemoveAt(futureEvents, i)
        /\ waiters_ready' = <<futureEvents[i].w>>
        /\ sigs' = Purged(sigs)
        /\ regs' = [s \in DOMAIN regs |-> RegsPurge(regs[s])]
        /\ last' = Step("wake", futureEvents[i].w.p, NoSigs, <<>>, futureEvents[i])
    /\ UNCHANGED <<script, bv, obj, siglist, awaited, running, maxTime>>

\* step 3: the next future event applies a value to a delayed signal
ApplyEvent ==
    /\ Idle
    /\ \E i \in DOMAIN futureEvents :
        /\ IsNextEvent(i)
        /\ futureEvents[i].time <= maxTime
        /\ futureEvents[i].kind = "wrap"
        /\ LET e == futureEvents[i]
               pg == Purged(sigs)
               r == DelayedSignal_apply(pg[e.sig], e.next, e.timeStamp)
           IN /\ now' = e.time
              /\ futureEvents' = RemoveAt(futureEvents, i)
              /\ sigs' = [pg EXCEPT ![e.sig] = r.sig]
              /\ waiters_ready' = r.waiters
              /\ regs' = [s \in DOMAIN regs |->
                            IF s = e.sig THEN RegsKeep(RegsPurge(regs[s]), r.sig)
                            ELSE RegsPurge(regs[s])]
              /\ last' = Step("apply", "none", pg, <<>>, e)
    /\ UNCHANGED <<script, bv, obj, siglist, awaited, running, maxTime>>

\* step 3: the next future event lies beyond the duration: run(T) returns at now + T
Suspend ==
    /\ Idle
    /\ \E i \in DOMAIN futureEvents :
        /\ IsNextEvent(i)
        /\ futureEvents[i].time > maxTime
    /\ now' = maxTime
    /\ running' = "suspended"
    /\ sigs' = Purged(sigs)
    /\ regs' = [s \in DOMAIN regs |-> RegsPurge(regs[s])]
    /\ last' = Step("suspend", "none", NoSigs, <<>>, NoEvent)
    /\ UNCHANGED <<script, bv, obj, siglist, futureEvents, waiters_ready, awaited, maxTime>>

\* step 3: no future event is left: run(T) returns on quiescence
Quiesce ==
    /\ Idle /\ futureEvents = <<>>
    /\ running' = "quiescent"
    /\ sigs' = Purged(sigs)
    /\ regs' = [s \in DOMAIN regs |-> RegsPurge(regs[s])]
    /\ last' = Step("quiesce", "none", NoSigs, <<>>, NoEvent)
    /\ UNCHANGED <<script, bv, obj, siglist, futureEvents, waiters_ready, now, awaited, maxTime>>

\* the signal b is created plain or delayed
SigDelay == 1

\* no scenario test bench, no intbv object
NoScript == [t2 |-> 0, v1 |-> 0, v2 |-> 0, pc |-> 0]
NoBv == [val |-> 0, min |-> 0, max |-> 1, op |-> "none", raised |-> FALSE]
NoObj == [kind |-> "none"]

\* the simulation kernel, and the kernel at rest while an object is exercised
kernel == <<sigs, siglist, futureEvents, waiters_ready, now, awaited, running, maxTime, last, regs>>

KernelAtRest ==
    /\ sigs = NoSigs
    /\ siglist = <<>>
    /\ futureEvents = <<>>
    /\ waiters_ready = <<>>
    /\ now = 0
    /\ awaited = [p \in Procs |-> {}]
    /\ running = "quiescent"
    /\ maxTime = 0
    /\ last = Step("init", "none", NoSigs, <<>>, NoEvent)
    /\ regs = [s \in Sigs |-> <<>>]

\* elaboration: signal a holds an integer, signal b a bit; Simulation() queues
\* the waiter of every process; run(T) is called at time 0
Init ==
    /\ \E delayed \in BOOLEAN :
        sigs = [s \in Sigs |-> IF s = "a" THEN NewSignal(0, "int", FALSE, 0)
                               ELSE NewSignal(0, "bit", delayed,
                                              IF delayed THEN SigDelay ELSE 0)]
    /\ siglist = <<>>
    /\ futureEvents = <<>>
    /\ waiters_ready = <<Waiter("p1", FALSE), Waiter("p2", FALSE)>>
    /\ now = 0
    /\ awaited = [p \in Procs |-> {}]
    /\ running = "running"
    /\ maxTime \in 1..MaxDuration
    /\ last = Step("init", "none", NoSigs, <<>>, NoEvent)
    /\ regs = [s \in Sigs |-> <<>>]
    /\ script = NoScript
    /\ bv = NoBv
    /\ obj = NoObj

Next ==
    \/ SkipWaiter
    \/ ProcYield
    \/ ProcFinish
    \/ ProcStop
    \/ ProcRaise
    \/ UpdateSignals
    \/ NextWaiter
    \/ ApplyEvent
    \/ Suspend
    \/ Quiesce

Spec == Init /\ [][Next]_vars

\* the scheduler loop of run(T) keeps taking steps until it returns
FairSpec == Spec /\ WF_vars(Next)

\* a next setter that unwraps a Signal to its pending next value
Signal_next_set_fromNext(h, s, b) == Signal_next_set(h, s, h.sigs[b].next)

\* _Signal.next setter called with the Signal b as value: the value stored is
\* b._val, then as for any value
Signal_next_set_from(h, s, b) == Signal_next_set(h, s, h.sigs[b].val)

\* ------------------------------------------------------------ delayed-signal scenario

\* the delays of the signal b, the times of the second write and the durations
Delays6 == {1, 10}
Times6 == {0, 3}
Durations6 == {5, 13}

\* a test bench drives the delayed bit signal b: next = v1 at time 0 and, a delay
\* of t2 later, next = v2; an observer is parked on the posedge of b. The
\* signal is created by Signal(0, delay), also tried with a negative delay
Init6 ==
    /\ \E d \in Delays6 \cup {-1} :
        LET b == Signal(0, "bit", TRUE, d) IN
        /\ b.ok
        /\ sigs = [s \in Sigs |->
                     IF s = "a" THEN NewSignal(0, "int", FALSE, 0)
                     ELSE [b.sig EXCEPT !.pos = <<Waiter("p2", FALSE)>>]]
    /\ siglist = <<>>
    /\ futureEvents = <<>>
    /\ waiters_ready = <<Waiter("p1", FALSE)>>
    /\ now = 0
    /\ awaited = [p \in Procs |-> IF p = "p2" THEN {PosT("b")} ELSE {}]
    /\ running = "running"
    /\ maxTime \in Durations6
    /\ last = Step("init", "none", NoSigs, <<>>, NoEvent)
    /\ regs = [s \in Sigs |->
                IF s = "b" THEN <<[w |-> Waiter("p2", FALSE), k |-> "pos"]>> ELSE <<>>]
    /\ script \in [t2 : Times6, v1 : {0, 1}, v2 : {0, 1}, pc : {1}]
    /\ bv = NoBv
    /\ obj = NoObj

\* step 1, the test bench: it writes the value of its position, then parks on
\* the delay to its second write or, after that, returns
Drive6 ==
    /\ running = "running" /\ waiters_ready # <<>>
    /\ Head(waiters_ready) = Waiter("p1", FALSE)
    /\ script.pc \in {1, 2}
    /\ LET h == Signal_next_set([sigs |-> sigs, siglist |-> siglist, ok |-> TRUE], "b",
                                IF script.pc = 1 THEN script.v1 ELSE script.v2)
       IN /\ sigs' = h.sigs
          /\ siglist' = h.siglist
    /\ futureEvents' = IF script.pc = 1
                       THEN Append(futureEvents,
                                   WaiterEvent(now + script.t2, Waiter("p1", FALSE)))
                       ELSE futureEvents
    /\ awaited' = [awaited EXCEPT !["p1"] =
                      IF script.pc = 1 THEN {DelayT(script.t2)} ELSE {}]
    /\ waiters_ready' = Tail(waiters_ready)
    /\ script' = [script EXCEPT !.pc = @ + 1]
    /\ last' = Step(IF script.pc = 1 THEN "yield" ELSE "finish", "p1", NoSigs, <<>>, NoEvent)
    /\ UNCHANGED <<now, running, maxTime, regs, bv, obj>>

\* step 1, the observer: woken by the posedge, it returns
Observe6 ==
    /\ running = "running" /\ waiters_ready # <<>>
    /\ Head(waiters_ready) = Waiter("p2", FALSE)
    /\ waiters_ready' = Tail(waiters_ready)
    /\ awaited' = [awaited EXCEPT !["p2"] = {}]
    /\ last' = Step("finish", "p2", NoSigs, <<>>, NoEvent)
    /\ UNCHANGED <<sigs, siglist, futureEvents, now, running, maxTime, regs, script, bv, obj>>

Next6 ==
    \/ Drive6
    \/ Observe6
    \/ UpdateSignals
    \/ NextWaiter
    \/ ApplyEvent
    \/ Suspend
    \/ Quiesce

Spec6 == Init6 /\ [][Next6]_vars

\* ------------------------------------------------------------ signal-to-signal assignment

\* the statements of a process step: s.next = v, or s.next = b for a Signal b
Stmts ==
    [s : Sigs, k : {"val"}, v : Vals, b : {NoSig}]
        \cup [s : Sigs, k : {"sig"}, v : {0}, b : Sigs]

\* most statements between two yields
MaxStmts == 2
Progs == UNION {[1..n -> Stmts] : n \in 1..MaxStmts}

\* the statements of a process step in program order, up to the first that raises
RECURSIVE DoStmts(_, _)
DoStmts(h, ws) ==
    IF ws = <<>> \/ ~h.ok THEN h
    ELSE DoStmts(IF Head(ws).k = "sig"
                 THEN Signal_next_set_from(h, Head(ws).s, Head(ws).b)
                 ELSE Signal_next_set(h, Head(ws).s, Head(ws).v),
                 Tail(ws))

\* the integer signal a and the bit signal b, driven by one process that runs
\* once per time unit
InitAlias ==
    /\ sigs = [s \in Sigs |-> IF s = "a" THEN NewSignal(0, "int", FALSE, 0)
                              ELSE NewSignal(0, "bit", FALSE, 0)]
    /\ siglist = <<>>
    /\ futureEvents = <<>>
    /\ waiters_ready = <<Waiter("p1", FALSE)>>
    /\ now = 0
    /\ awaited = [p \in Procs |-> {}]
    /\ running = "running"
    /\ maxTime \in 1..2
    /\ last = Step("init", "none", NoSigs, <<>>, NoEvent)
    /\ regs = [s \in Sigs |-> <<>>]
    /\ script = [prog |-> <<>>]
    /\ bv = NoBv
    /\ obj = NoObj

\* step 1: the process executes its statements and yields delay(1); a
\* statement that raises ends the simulation
RunAlias ==
    /\ running = "running" /\ waiters_ready # <<>>
    /\ Head(waiters_ready) = Waiter("p1", FALSE)
    /\ \E prog \in Progs :
        LET h == DoStmts([sigs |-> sigs, siglist |-> siglist, ok |-> TRUE], prog)
        IN /\ sigs' = h.sigs
           /\ siglist' = h.siglist
           /\ script' = [prog |-> prog]
           /\ futureEvents' = IF h.ok
                              THEN Append(futureEvents, WaiterEvent(now + 1, Waiter("p1", FALSE)))
                              ELSE futureEvents
           /\ awaited' = [awaited EXCEPT !["p1"] = IF h.ok THEN {DelayT(1)} ELSE {}]
           /\ running' = IF h.ok THEN "running" ELSE "error"
           /\ last' = Step(IF h.ok THEN "yield" ELSE "raise", "p1", sigs, siglist, NoEvent)
    /\ waiters_ready' = Tail(waiters_ready)
    /\ UNCHANGED <<now, maxTime, regs, bv, obj>>

NextAlias ==
    \/ RunAlias
    \/ UpdateSignals
    \/ NextWaiter
    \/ Suspend

SpecAlias == InitAlias /\ [][NextAlias]_vars

\* ------------------------------------------------------------ D flip-flop scenario

\* the half periods of the clock, the times at which d is set and cleared, and
\* the duration of the run
HalfPeriods == {2, 5}
SetTimes == {3}
ClearTimes == {12, 17}
DffDuration == 30

SigsDff == {"clk", "d", "q"}

\* three bit signals, all 0; a clock generator (yield delay(half), then toggle
\* clk), a stimulus (d.next = 1 at t1, d.next = 0 at t2) and the flip-flop
\* (on every posedge of clk: q.next = d)
InitDff ==
    /\ sigs = [s \in SigsDff |-> NewSignal(0, "bit", FALSE, 0)]
    /\ siglist = <<>>
    /\ futureEvents = <<>>
    /\ waiters_ready = <<Waiter("clkgen", FALSE), Waiter("stim", FALSE), Waiter("dff", FALSE)>>
    /\ now = 0
    /\ awaited = [p \in {"clkgen", "stim", "dff"} |-> {}]
    /\ running = "running"
    /\ maxTime = DffDuration
    /\ last = Step("init", "none", NoSigs, <<>>, NoEvent)
    /\ regs = [s \in SigsDff |-> <<>>]
    /\ script \in [half : HalfPeriods, t1 : SetTimes, t2 : ClearTimes, pc : {0}]
    /\ bv = NoBv
    /\ obj = NoObj

\* step 1, the clock generator: it toggles clk (not on its first run) and
\* yields delay(half)
ClkGen ==
    /\ running = "running" /\ waiters_ready # <<>>
    /\ Head(waiters_ready) = Waiter("clkgen", FALSE)
    /\ LET h0 == [sigs |-> sigs, siglist |-> siglist, ok |-> TRUE]
           h == IF awaited["clkgen"] = {} THEN h0
                ELSE Signal_next_set(h0, "clk", IF Truthy(sigs["clk"].val) THEN 0 ELSE 1)
       IN /\ sigs' = h.sigs
          /\ siglist' = h.siglist
    /\ futureEvents' = Append(futureEvents,
                              WaiterEvent(now + script.half, Waiter("clkgen", FALSE)))
    /\ awaited' = [awaited EXCEPT !["clkgen"] = {DelayT(script.half)}]
    /\ waiters_ready' = Tail(waiters_ready)
    /\ last' = Step("yield", "clkgen", sigs, siglist, NoEvent)
    /\ UNCHANGED <<now, running, maxTime, regs, script, bv, obj>>

\* step 1, the stimulus: yield delay(t1); d.next = 1; yield delay(t2 - t1);
\* d.next = 0
Stimulus ==
    /\ running = "running" /\ waiters_ready # <<>>
    /\ Head(waiters_ready) = Waiter("stim", FALSE)
    /\ LET h0 == [sigs |-> sigs, siglist |-> siglist, ok |-> TRUE]
           h == IF script.pc = 0 THEN h0
                ELSE Signal_next_set(h0, "d", IF script.pc = 1 THEN 1 ELSE 0)
           d == IF script.pc = 0 THEN script.t1 ELSE script.t2 - script.t1
       IN /\ sigs' = h.sigs
          /\ siglist' = h.siglist
          /\ futureEvents' = IF script.pc < 2
                             THEN Append(futureEvents, WaiterEvent(now + d, Waiter("stim", FALSE)))
                             ELSE futureEvents
          /\ awaited' = [awaited EXCEPT !["stim"] = IF script.pc < 2 THEN {DelayT(d)} ELSE {}]
    /\ script' = [script EXCEPT !.pc = @ + 1]
    /\ waiters_ready' = Tail(waiters_ready)
    /\ last' = Step(IF script.pc < 2 THEN "yield" ELSE "finish", "stim", sigs, siglist, NoEvent)
    /\ UNCHANGED <<now, running, maxTime, regs, bv, obj>>

\* step 1, the flip-flop: q.next = d (not on its first run), then it waits for
\* the next posedge of clk
Dff ==
    /\ running = "running" /\ waiters_ready # <<>>
    /\ Head(waiters_ready) = Waiter("dff", FALSE)
    /\ LET h0 == [sigs |-> sigs, siglist |-> siglist, ok |-> TRUE]
           h == IF awaited["dff"] = {} THEN h0 ELSE Signal_next_set_from(h0, "q", "d")
       IN /\ sigs' = [h.sigs EXCEPT !["clk"] =
                        RegisterSig(@, "clk", {PosT("clk")}, Waiter("dff", FALSE))]
          /\ siglist' = h.siglist
    /\ regs' = [regs EXCEPT !["clk"] = RegsAdd(@, "clk", {PosT("clk")}, Waiter("dff", FALSE))]
    /\ awaited' = [awaited EXCEPT !["dff"] = {PosT("clk")}]
    /\ waiters_ready' = Tail(waiters_ready)
    /\ last' = Step("yield", "dff", sigs, siglist, NoEvent)
    /\ UNCHANGED <<futureEvents, now, running, maxTime, script, bv, obj>>

NextDff ==
    \/ ClkGen
    \/ Stimulus
    \/ Dff
    \/ UpdateSignals
    \/ NextWaiter
    \/ Suspend

SpecDff == InitDff /\ [][NextDff]_vars

\* ------------------------------------------------------------ intbv

\* beyond this magnitude of _val no further operation is tried
MaxBv == 8
\* the bounds an intbv is created with, the right operands, the bit indices
BvMins == {-4, 0}
BvMaxs == {4, 8}
BvArgs == -2..3
BvIdx == 0..2

\* Python's &, |, ^ and ~ on integers of any sign (two's complement)
BitNot(x) == -x - 1

RECURSIVE BitAnd(_, _)
BitAnd(x, y) ==
    IF x = 0 \/ y = 0 THEN 0
    ELSE IF x = -1 THEN y
    ELSE IF y = -1 THEN x
    ELSE (x % 2) * (y % 2) + 2 * BitAnd(x \div 2, y \div 2)

RECURSIVE BitOr(_, _)
BitOr(x, y) ==
    IF x = 0 THEN y
    ELSE IF y = 0 THEN x
    ELSE IF x = -1 \/ y = -1 THEN -1
    ELSE (IF x % 2 = 1 \/ y % 2 = 1 THEN 1 ELSE 0) + 2 * BitOr(x \div 2, y \div 2)

RECURSIVE BitXor(_, _)
BitXor(x, y) ==
    IF x = 0 THEN y
    ELSE IF y = 0 THEN x
    ELSE IF x = -1 THEN BitNot(y)
    ELSE IF y = -1 THEN BitNot(x)
    ELSE (((x % 2) + (y % 2)) % 2) + 2 * BitXor(x \div 2, y \div 2)

\* Python's // and % (the quotient is rounded down, also for a negative divisor)
PyFloorDiv(a, b) == IF b > 0 THEN a \div b ELSE (-a) \div (-b)
PyMod(a, b) == a - b * PyFloorDiv(a, b)

\* Python's ** with a non-negative exponent (0 ** 0 is 1)
RECURSIVE PyPow(_, _)
PyPow(a, n) == IF n = 0 THEN 1 ELSE a * PyPow(a, n - 1)

\* intbv._handleBounds: TRUE when it raises ValueError
intbv_handleBounds(b) == b.val >= b.max \/ b.val < b.min

\* an operation that assigns v to _val and then calls _handleBounds
Assigned(b, op, v) ==
    LET n == [b EXCEPT !.val = v, !.op = op]
    IN [n EXCEPT !.raised = intbv_handleBounds(n)]

\* an operation that raises before it assigns
Rejected(b, op) == [b EXCEPT !.op = op, !.raised = TRUE]

BvIdle == bv.val \in -MaxBv..MaxBv

\* __iadd__: self._val += other
intbv_iadd ==
    /\ BvIdle
    /\ \E o \in BvArgs :
        bv' = Assigned(bv, "iadd", bv.val + o)
    /\ UNCHANGED <<sigs, siglist, futureEvents, waiters_ready, now, awaited, running, maxTime, last, regs, script, obj>>

\* __isub__: self._val -= other
intbv_isub ==
    /\ BvIdle
    /\ \E o \in BvArgs :
        bv' = Assigned(bv, "isub", bv.val - o)
    /\ UNCHANGED <<sigs, siglist, futureEvents, waiters_ready, now, awaited, running, maxTime, last, regs, script, obj>>

\* __imul__: self._val *= other
intbv_imul ==
    /\ BvIdle
    /\ \E o \in BvArgs :
        bv' = Assigned(bv, "imul", bv.val * o)
    /\ UNCHANGED <<sigs, siglist, futureEvents, waiters_ready, now, awaited, running, maxTime, last, regs, script, obj>>

\* __ifloordiv__: division by zero raises before _val is assigned
intbv_ifloordiv ==
    /\ BvIdle
    /\ \E o \in BvArgs :
        bv' = IF o = 0 THEN Rejected(bv, "ifloordiv")
                 ELSE Assigned(bv, "ifloordiv", PyFloorDiv(bv.val, o))
    /\ UNCHANGED <<sigs, siglist, futureEvents, waiters_ready, now, awaited, running, maxTime, last, regs, script, obj>>

\* __imod__: a zero modulus raises before _val is assigned
intbv_imod ==
    /\ BvIdle
    /\ \E o \in BvArgs :
        bv' = IF o = 0 THEN Rejected(bv, "imod")
                 ELSE Assigned(bv, "imod", PyMod(bv.val, o))
    /\ UNCHANGED <<sigs, siglist, futureEvents, waiters_ready, now, awaited, running, maxTime, last, regs, script, obj>>

\* __iand__: self._val &= other
intbv_iand ==
    /\ BvIdle
    /\ \E o \in BvArgs :
        bv' = Assigned(bv, "iand", BitAnd(bv.val, o))
    /\ UNCHANGED <<sigs, siglist, futureEvents, waiters_ready, now, awaited, running, maxTime, last, regs, script, obj>>

\* __ior__: self._val |= other
intbv_ior ==
    /\ BvIdle
    /\ \E o \in BvArgs :
        bv' = Assigned(bv, "ior", BitOr(bv.val, o))
    /\ UNCHANGED <<sigs, siglist, futureEvents, waiters_ready, now, awaited, running, maxTime, last, regs, script, obj>>

\* __ixor__: self._val ^= other
intbv_ixor ==
    /\ BvIdle
    /\ \E o \in BvArgs :
        bv' = Assigned(bv, "ixor", BitXor(bv.val, o))
    /\ UNCHANGED <<sigs, siglist, futureEvents, waiters_ready, now, awaited, running, maxTime, last, regs, script, obj>>

\* __ilshift__: a negative shift count raises before _val is assigned
intbv_ilshift ==
    /\ BvIdle
    /\ \E o \in BvArgs :
        bv' = IF o < 0 THEN Rejected(bv, "ilshift")
                 ELSE Assigned(bv, "ilshift", bv.val * 2^o)
    /\ UNCHANGED <<sigs, siglist, futureEvents, waiters_ready, now, awaited, running, maxTime, last, regs, script, obj>>

\* __irshift__: a negative shift count raises before _val is assigned
intbv_irshift ==
    /\ BvIdle
    /\ \E o \in BvArgs :
        bv' = IF o < 0 THEN Rejected(bv, "irshift")
                 ELSE Assigned(bv, "irshift", bv.val \div 2^o)
    /\ UNCHANGED <<sigs, siglist, futureEvents, waiters_ready, now, awaited, running, maxTime, last, regs, script, obj>>

\* __ipow__ with a non-negative exponent: self._val **= other
intbv_ipow ==
    /\ BvIdle
    /\ \E o \in {x \in BvArgs : x >= 0} :
        bv' = Assigned(bv, "ipow", PyPow(bv.val, o))
    /\ UNCHANGED <<sigs, siglist, futureEvents, waiters_ready, now, awaited, running, maxTime, last, regs, script, obj>>

\* __setitem__ with an index: bit i is set or cleared; another value raises
\* before _val is assigned
intbv_setitem_bit ==
    /\ BvIdle
    /\ \E i \in BvIdx : \E v \in {0, 1, 2} :
        bv' = IF v = 1 THEN Assigned(bv, "setbit", BitOr(bv.val, 2^i))
              ELSE IF v = 0 THEN Assigned(bv, "setbit", BitAnd(bv.val, BitNot(2^i)))
              ELSE Rejected(bv, "setbit")
    /\ UNCHANGED <<sigs, siglist, futureEvents, waiters_ready, now, awaited, running, maxTime, last, regs, script, obj>>

\* __setitem__ with a slice [i:j] on the vector b: i <= j and a value that
\* does not fit the slice raise before _val is assigned
intbv_setslice(b, i, j, v) ==
    IF i <= j THEN Rejected(b, "setslice")
    ELSE LET lim == 2^(i - j)
             mask == (lim - 1) * 2^j
         IN IF v >= lim \/ v < -lim THEN Rejected(b, "setslice")
            ELSE Assigned(b, "setslice", BitOr(BitAnd(b.val, BitNot(mask)), v * 2^j))

\* __setitem__ with a slice [i:j]
intbv_setitem_slice ==
    /\ BvIdle
    /\ \E i \in BvIdx : \E j \in BvIdx : \E v \in BvArgs :
        bv' = intbv_setslice(bv, i, j, v)
    /\ UNCHANGED <<sigs, siglist, futureEvents, waiters_ready, now, awaited, running, maxTime, last, regs, script, obj>>

\* __setitem__ with a slice [:j]: the bits from j upwards are replaced
intbv_setitem_open ==
    /\ BvIdle
    /\ \E j \in BvIdx : \E v \in BvArgs :
        bv' = Assigned(bv, "setopen", v * 2^j + (bv.val % 2^j))
    /\ UNCHANGED <<sigs, siglist, futureEvents, waiters_ready, now, awaited, running, maxTime, last, regs, script, obj>>

\* intbv(val, min, max): the constructor accepts a value within the bounds
InitBv ==
    /\ sigs = NoSigs
    /\ siglist = <<>>
    /\ futureEvents = <<>>
    /\ waiters_ready = <<>>
    /\ now = 0
    /\ awaited = [p \in Procs |-> {}]
    /\ running = "quiescent"
    /\ maxTime = 0
    /\ last = Step("init", "none", NoSigs, <<>>, NoEvent)
    /\ regs = [s \in Sigs |-> <<>>]
    /\ script = NoScript
    /\ obj = NoObj
    /\ \E mn \in BvMins : \E mx \in BvMaxs : \E v \in mn..(mx - 1) :
        bv = [val |-> v, min |-> mn, max |-> mx, op |-> "init", raised |-> FALSE]

NextBv ==
    \/ intbv_iadd
    \/ intbv_isub
    \/ intbv_imul
    \/ intbv_ifloordiv
    \/ intbv_imod
    \/ intbv_ipow
    \/ intbv_iand
    \/ intbv_ior
    \/ intbv_ixor
    \/ intbv_ilshift
    \/ intbv_irshift
    \/ intbv_setitem_bit
    \/ intbv_setitem_slice
    \/ intbv_setitem_open

SpecBv == InitBv /\ [][NextBv]_vars

\* ------------------------------------------------------------ modular vector

\* the [min, max) ranges of the modular vector and the operations of a run
ModRanges == {<<0, 2>>, <<0, 4>>, <<0, 8>>, <<-4, 4>>}
MaxTicks == 10

\* a bounds check that saturates instead of wrapping
modbv_handleBounds_clip(b) ==
    IF b.val < b.min THEN b.min
    ELSE IF b.val >= b.max THEN b.max - 1
    ELSE b.val

\* the bounds check of the modular variant: a value outside [min, max) is
\* replaced by (val - lo) % (hi - lo) + lo; nothing is raised
modbv_handleBounds(b) ==
    IF b.val < b.min \/ b.val >= b.max
    THEN ((b.val - b.min) % (b.max - b.min)) + b.min
    ELSE b.val

\* an augmented addition on the modular vector: _val += o, then the bounds check
modbv_iadd(b, o) ==
    LET n == [b EXCEPT !.val = b.val + o]
    IN [n EXCEPT !.val = modbv_handleBounds(n), !.op = "iadd", !.raised = FALSE,
                 !.steps = @ + 1, !.sum = @ + o]

\* a modular vector with initial value 0
InitMod ==
    /\ KernelAtRest
    /\ script = NoScript
    /\ obj = NoObj
    /\ \E r \in ModRanges :
        bv = [val |-> 0, min |-> r[1], max |-> r[2], op |-> "init", raised |-> FALSE,
              steps |-> 0, ticks |-> 0, sum |-> 0]

\* a rising clock edge: the vector is incremented
ModTick ==
    /\ bv.steps < MaxTicks
    /\ bv' = [modbv_iadd(bv, 1) EXCEPT !.ticks = @ + 1]
    /\ UNCHANGED <<kernel, script, obj>>

\* another amount is added
ModAdd ==
    /\ bv.steps < MaxTicks
    /\ \E o \in {-3, 5} : bv' = modbv_iadd(bv, o)
    /\ UNCHANGED <<kernel, script, obj>>

NextMod ==
    \/ ModTick
    \/ ModAdd

SpecMod == InitMod /\ [][NextMod]_vars

\* ------------------------------------------------------------ Constant

\* the largest initial value of the Constant and the largest value written
MaxConst == 7

\* Constant.next getter: None, and the signal is not queued
Constant_next_get(c) == "None"

\* the outcome of the last operation on the Constant c
ConstOp(c, op, arg, exc) == [c EXCEPT !.op = op, !.arg = arg, !.exc = exc]

\* Constant(val): _Signal.__init__ with the value
InitConst ==
    /\ KernelAtRest
    /\ script = NoScript
    /\ bv = NoBv
    /\ \E v \in 0..MaxConst :
        obj = [kind |-> "Constant", init |-> v, val |-> v, queued |-> FALSE,
               op |-> "init", arg |-> <<>>, exc |-> "none"]

\* c.next = v: the setter raises PermissionError
Constant_next_set ==
    /\ \E v \in 0..MaxConst :
        obj' = ConstOp(obj, "next_set", <<v>>, "PermissionError")
    /\ UNCHANGED <<kernel, script, bv>>

\* c.next[i] = v: the getter returns None, and the item assignment on None
\* raises TypeError
Constant_next_setitem ==
    /\ \E i \in 0..2 : \E v \in {0, 1} :
        obj' = IF Constant_next_get(obj) = "None"
               THEN ConstOp(obj, "next_setitem", <<i, v>>, "TypeError")
               ELSE ConstOp([obj EXCEPT !.queued = TRUE], "next_setitem", <<i, v>>, "none")
    /\ UNCHANGED <<kernel, script, bv>>

\* c.next[i:j] = v: likewise
Constant_next_setslice ==
    /\ \E i \in 1..2 : \E j \in 0..1 : \E v \in 0..1 :
        obj' = IF Constant_next_get(obj) = "None"
               THEN ConstOp(obj, "next_setslice", <<i, j, v>>, "TypeError")
               ELSE ConstOp([obj EXCEPT !.queued = TRUE], "next_setslice", <<i, j, v>>, "none")
    /\ UNCHANGED <<kernel, script, bv>>

\* c.driven = v: ignored
Constant_driven_set ==
    /\ \E v \in {"reg", "wire"} :
        obj' = ConstOp(obj, "driven_set", <<v>>, "none")
    /\ UNCHANGED <<kernel, script, bv>>

NextConst ==
    \/ Constant_next_set
    \/ Constant_next_setitem
    \/ Constant_next_setslice
    \/ Constant_driven_set

SpecConst == InitConst /\ [][NextConst]_vars

\* ------------------------------------------------------------ scramble

\* the width of the vectors, the patterns and the values driven on A
ScrWidth == 8
Patterns == {0, 66, 189, 255}
Inputs == {0, 60, 126, 255}

SigsScr == {"A", "y1a2", "Y"}

\* intbv.__getitem__ with an index: bit i of the value
intbv_getitem_bit(v, i) == (v \div 2^i) % 2

\* Y.next[i] = b: the next getter queues the signal and returns _next, of which
\* intbv.__setitem__ sets or clears bit i
Signal_next_setitem_bit(h, s, i, b) ==
    [h EXCEPT !.sigs[s].next = IF b THEN BitOr(@, 2^i) ELSE BitAnd(@, BitNot(2^i)),
              !.siglist = Append(@, s)]

\* a body that copies every bit
RECURSIVE dsc_copy(_, _, _, _, _)
dsc_copy(h, pat, a, y, i) ==
    IF i >= ScrWidth THEN h
    ELSE dsc_copy(Signal_next_setitem_bit(h, y, i, intbv_getitem_bit(h.sigs[a].val, i) = 1),
                  pat, a, y, i + 1)

\* scramble.dsc from bit i on: Y.next[i] = not A[i] where Pattern[i] is set,
\* A[i] elsewhere
RECURSIVE dsc(_, _, _, _, _)
dsc(h, pat, a, y, i) ==
    IF i >= ScrWidth THEN h
    ELSE LET ai == intbv_getitem_bit(h.sigs[a].val, i) = 1
             b == IF intbv_getitem_bit(pat, i) = 1 THEN ~ai ELSE ai
         IN dsc(Signal_next_setitem_bit(h, y, i, b), pat, a, y, i + 1)

\* contrived: s1 = scramble(PAT1, A, y1a2), s2 = scramble(PAT2, y1a2, Y), all
\* vectors 0; the stimulus drives two values on A, one time unit apart
InitScr ==
    /\ sigs = [s \in SigsScr |-> NewSignal(0, "int", FALSE, 0)]
    /\ siglist = <<>>
    /\ futureEvents = <<>>
    /\ waiters_ready = <<Waiter("stim", FALSE), Waiter("s1", FALSE), Waiter("s2", FALSE)>>
    /\ now = 0
    /\ awaited = [p \in {"stim", "s1", "s2"} |-> {}]
    /\ running = "running"
    /\ maxTime = 3
    /\ last = Step("init", "none", NoSigs, <<>>, NoEvent)
    /\ regs = [s \in SigsScr |-> <<>>]
    /\ script \in [pat1 : Patterns, pat2 : Patterns, in1 : Inputs, in2 : Inputs, pc : {0}]
    /\ bv = NoBv
    /\ obj = NoObj

\* the stimulus: yield delay(1); A.next = in1; yield delay(1); A.next = in2
StimScr ==
    /\ running = "running" /\ waiters_ready # <<>>
    /\ Head(waiters_ready) = Waiter("stim", FALSE)
    /\ LET h0 == [sigs |-> sigs, siglist |-> siglist, ok |-> TRUE]
           h == IF script.pc = 0 THEN h0
                ELSE Signal_next_set(h0, "A", IF script.pc = 1 THEN script.in1 ELSE script.in2)
       IN /\ sigs' = h.sigs
          /\ siglist' = h.siglist
    /\ futureEvents' = IF script.pc < 2
                       THEN Append(futureEvents, WaiterEvent(now + 1, Waiter("stim", FALSE)))
                       ELSE futureEvents
    /\ awaited' = [awaited EXCEPT !["stim"] = IF script.pc < 2 THEN {DelayT(1)} ELSE {}]
    /\ script' = [script EXCEPT !.pc = @ + 1]
    /\ waiters_ready' = Tail(waiters_ready)
    /\ last' = Step(IF script.pc < 2 THEN "yield" ELSE "finish", "stim", sigs, siglist, NoEvent)
    /\ UNCHANGED <<now, running, maxTime, regs, bv, obj>>

\* a run of the combinational process s1 = scramble(PAT1, A, y1a2): the body,
\* then it waits for the next change of its input
Scramble1 ==
    /\ running = "running" /\ waiters_ready # <<>>
    /\ Head(waiters_ready) = Waiter("s1", FALSE)
    /\ LET h == dsc([sigs |-> sigs, siglist |-> siglist, ok |-> TRUE], script.pat1, "A", "y1a2", 0)
       IN /\ sigs' = [h.sigs EXCEPT !["A"] = RegisterSig(@, "A", {EvT("A")}, Waiter("s1", FALSE))]
          /\ siglist' = h.siglist
    /\ regs' = [regs EXCEPT !["A"] = RegsAdd(@, "A", {EvT("A")}, Waiter("s1", FALSE))]
    /\ awaited' = [awaited EXCEPT !["s1"] = {EvT("A")}]
    /\ waiters_ready' = Tail(waiters_ready)
    /\ last' = Step("yield", "s1", sigs, siglist, NoEvent)
    /\ UNCHANGED <<futureEvents, now, running, maxTime, script, bv, obj>>

\* a run of s2 = scramble(PAT2, y1a2, Y)
Scramble2 ==
    /\ running = "running" /\ waiters_ready # <<>>
    /\ Head(waiters_ready) = Waiter("s2", FALSE)
    /\ LET h == dsc([sigs |-> sigs, siglist |-> siglist, ok |-> TRUE], script.pat2, "y1a2", "Y", 0)
       IN /\ sigs' = [h.sigs EXCEPT !["y1a2"] = RegisterSig(@, "y1a2", {EvT("y1a2")}, Waiter("s2", FALSE))]
          /\ siglist' = h.siglist
    /\ regs' = [regs EXCEPT !["y1a2"] = RegsAdd(@, "y1a2", {EvT("y1a2")}, Waiter("s2", FALSE))]
    /\ awaited' = [awaited EXCEPT !["s2"] = {EvT("y1a2")}]
    /\ waiters_ready' = Tail(waiters_ready)
    /\ last' = Step("yield", "s2", sigs, siglist, NoEvent)
    /\ UNCHANGED <<futureEvents, now, running, maxTime, script, bv, obj>>

NextScr ==
    \/ StimScr
    \/ Scramble1
    \/ Scramble2
    \/ UpdateSignals
    \/ NextWaiter
    \/ Quiesce

SpecScr == InitScr /\ [][NextScr]_vars

\* ------------------------------------------------------------ slice assignment

\* the values assigned to a slice
SliceArgs == -4..4

\* an intbv within its bounds; pre, i, j and x record the value before the
\* last slice assignment and its arguments
InitSlice ==
    /\ KernelAtRest
    /\ script = NoScript
    /\ obj = NoObj
    /\ \E mn \in BvMins : \E mx \in BvMaxs : \E v \in mn..(mx - 1) :
        bv = [val |-> v, min |-> mn, max |-> mx, op |-> "init", raised |-> FALSE,
              pre |-> v, i |-> 0, j |-> 0, x |-> 0]

\* v[i:j] = x
SliceAssign ==
    /\ BvIdle
    /\ \E i \in BvIdx \cup {3} : \E j \in BvIdx : \E x \in SliceArgs :
        /\ i > j
        /\ bv' = [intbv_setslice(bv, i, j, x) EXCEPT !.pre = bv.val, !.i = i, !.j = j, !.x = x]
    /\ UNCHANGED kernel
    /\ UNCHANGED <<script, obj>>

\* v[i] = b
BitAssign ==
    /\ BvIdle
    /\ \E i \in BvIdx : \E b \in {0, 1} :
        bv' = [Assigned(bv, "setbit", IF b = 1 THEN BitOr(bv.val, 2^i)
                                      ELSE BitAnd(bv.val, BitNot(2^i)))
               EXCEPT !.pre = bv.val, !.i = i, !.j = i, !.x = b]
    /\ UNCHANGED kernel
    /\ UNCHANGED <<script, obj>>

NextSlice ==
    \/ SliceAssign
    \/ BitAssign

SpecSlice == InitSlice /\ [][NextSlice]_vars

\* ------------------------------------------------------------ intbv.signed

\* the bounds, values and widths an intbv is constructed with
SgnMins == -4..1
SgnMaxs == -1..8
SgnVals == -4..7
SgnWidths == 1..3

\* len(bin(n)): the number of binary digits of n >= 0, the width of the two's
\* complement representation of n < 0
RECURSIVE bin_len(_)
bin_len(n) ==
    IF n = 0 \/ n = 1 \/ n = -1 THEN 1
    ELSE 1 + bin_len(n \div 2)

\* the _nrbits that intbv.__init__ derives from min and max
intbv_width(hasMin, mn, hasMax, mx) ==
    IF hasMin /\ hasMax
    THEN IF mn >= 0 THEN bin_len(mx - 1)
         ELSE IF mx <= 1 THEN bin_len(mn)
         ELSE IF bin_len(mx - 1) + 1 > bin_len(mn) THEN bin_len(mx - 1) + 1 ELSE bin_len(mn)
    ELSE 0

\* intbv(val, min, max): the vector, and whether _handleBounds raises
intbv_new(val, hasMin, mn, hasMax, mx) ==
    [val |-> val, hasMin |-> hasMin, min |-> mn, hasMax |-> hasMax, max |-> mx,
     nrbits |-> intbv_width(hasMin, mn, hasMax, mx),
     raised |-> (hasMax /\ val >= mx) \/ (hasMin /\ val < mn)]

\* intbv(val, _nrbits = n): min = 0, max = 2 ** n
intbv_bits(val, n) ==
    [val |-> val, hasMin |-> TRUE, min |-> 0, hasMax |-> TRUE, max |-> 2^n,
     nrbits |-> n, raised |-> val >= 2^n \/ val < 0]

\* intbv("b...b"): the value of the n digits, no bounds, _nrbits = n
intbv_str(val, n) ==
    [val |-> val, hasMin |-> FALSE, min |-> 0, hasMax |-> FALSE, max |-> 0,
     nrbits |-> n, raised |-> FALSE]

\* intbv.signed: the vector it returns, raised when the constructor of the
\* result raises
intbv_signed(v) ==
    LET msb == v.nrbits - 1
        retVal == IF v.hasMin /\ v.min >= 0 /\ v.nrbits # 0
                  THEN LET sign == (v.val \div 2^msb) % 2 = 1
                           low == BitAnd(v.val, 2^msb - 1)
                       IN IF sign THEN low - 2^msb ELSE low
                  ELSE v.val
    IN IF v.nrbits # 0
       THEN intbv_new(retVal, TRUE, -(2^msb), TRUE, 2^msb)
       ELSE intbv_new(retVal, FALSE, 0, FALSE, 0)

\* a vector the constructor has accepted
InitSigned ==
    /\ KernelAtRest
    /\ script = NoScript
    /\ obj = NoObj
    /\ bv \in {v \in {intbv_new(x, hm, mn, hx, mx) :
                        x \in SgnVals, hm \in BOOLEAN, mn \in SgnMins,
                        hx \in BOOLEAN, mx \in SgnMaxs} : ~v.raised}
              \cup {intbv_bits(x, n) : x \in {y \in SgnVals : y >= 0}, n \in SgnWidths}
              \cup {v \in {intbv_str(x, n) : x \in {y \in SgnVals : y >= 0}, n \in SgnWidths} :
                        v.val < 2^v.nrbits}
    /\ (~bv.hasMin => bv.min = 0) /\ (~bv.hasMax => bv.max = 0) /\ ~bv.raised

\* r = v.signed()
Signed ==
    /\ obj.kind = "none"
    /\ obj' = [kind |-> "signed", of |-> bv, res |-> intbv_signed(bv)]
    /\ UNCHANGED kernel
    /\ UNCHANGED <<script, bv>>

\* v = r
Rebind ==
    /\ obj.kind = "signed" /\ ~obj.res.raised /\ obj.res # bv
    /\ bv' = obj.res
    /\ obj' = NoObj
    /\ UNCHANGED kernel
    /\ UNCHANGED script

NextSigned ==
    \/ Signed
    \/ Rebind

SpecSigned == InitSigned /\ [][NextSigned]_vars

\* ------------------------------------------------------------ intbv operators

\* the operands: vectors over three ranges, and plain integers
OpRanges == {<<0, 8>>, <<-4, 4>>, <<0, 2>>}
OpVecs == {intbv_new(x, TRUE, r[1], TRUE, r[2]) : x \in SgnVals, r \in OpRanges}
OpInts == {[val |-> n] : n \in -2..2}

\* isinstance(x, intbv)
IsIntbv(x) == "nrbits" \in DOMAIN x

\* intbv.issigned
intbv_issigned(v) == v.hasMin /\ v.min < 0

\* an addition that returns a vector
intbv_add_vector(a, b) == intbv_new(a.val + b.val, FALSE, 0, FALSE, 0)

\* intbv.__add__: the sum of the values, a plain integer
intbv_add(a, b) == [val |-> a.val + b.val]

\* intbv.__sub__
intbv_sub(a, b) == [val |-> a.val - b.val]

\* intbv.__mul__
intbv_mul(a, b) == [val |-> a.val * b.val]

\* intbv.__and__: a new vector without bounds
intbv_and(a, b) == intbv_new(BitAnd(a.val, b.val), FALSE, 0, FALSE, 0)

\* a vector the constructor has accepted
InitOps ==
    /\ KernelAtRest
    /\ script = NoScript
    /\ obj = NoObj
    /\ bv \in {v \in OpVecs : ~v.raised}

\* r = a + b
Add ==
    /\ \E b \in {v \in OpVecs : ~v.raised} \cup OpInts :
        obj' = [kind |-> "add", a |-> bv, b |-> b, res |-> intbv_add(bv, b)]
    /\ UNCHANGED kernel
    /\ UNCHANGED <<script, bv>>

\* r = a - b
Sub ==
    /\ \E b \in {v \in OpVecs : ~v.raised} \cup OpInts :
        obj' = [kind |-> "sub", a |-> bv, b |-> b, res |-> intbv_sub(bv, b)]
    /\ UNCHANGED kernel
    /\ UNCHANGED <<script, bv>>

\* r = a * b
Mul ==
    /\ \E b \in {v \in OpVecs : ~v.raised} \cup OpInts :
        obj' = [kind |-> "mul", a |-> bv, b |-> b, res |-> intbv_mul(bv, b)]
    /\ UNCHANGED kernel
    /\ UNCHANGED <<script, bv>>

\* r = a & b
And ==
    /\ \E b \in {v \in OpVecs : ~v.raised} \cup OpInts :
        obj' = [kind |-> "and", a |-> bv, b |-> b, res |-> intbv_and(bv, b)]
    /\ UNCHANGED kernel
    /\ UNCHANGED <<script, bv>>

NextOps ==
    \/ Add
    \/ Sub
    \/ Mul
    \/ And

SpecOps == InitOps /\ [][NextOps]_vars

\* ------------------------------------------------------------ block names

\* the decorated functions; the body of top instantiates f twice
FuncNames == {"f", "f0_", "top"}
Body(f) == IF f = "top" THEN <<"f", "f">> ELSE <<>>

\* no more names than this are handed out in a run
MaxNames == 5

\* a uniqueifier that tries one suffix only
uniqueify_name_once(name_set, proposed_name, n) ==
    IF proposed_name \in name_set THEN proposed_name \o "_" \o ToString(n)
    ELSE proposed_name

\* _uniqueify_name, its loop from counter n on: the name it returns
RECURSIVE uniqueify_name(_, _, _)
uniqueify_name(name_set, proposed_name, n) ==
    IF proposed_name \in name_set
    THEN uniqueify_name(name_set, proposed_name \o "_" \o ToString(n), n + 1)
    ELSE proposed_name

\* block.__call__ up to the construction of the _Block: the name is
\* func.__name__ + str(calls), made unique and recorded in _name_set
block_call(o, f) ==
    LET name == uniqueify_name(o.name_set, f \o ToString(o.calls[f]), 0)
    IN [o EXCEPT !.calls[f] = @ + 1,
                 !.name_set = @ \cup {name},
                 !.names = Append(@, name)]

\* the body of a block function: it instantiates its sub-blocks in turn
RECURSIVE RunBody(_, _)
RunBody(o, body) ==
    IF body = <<>> THEN o ELSE RunBody(block_call(o, Head(body)), Tail(body))

\* no block has been instantiated: the call counters are 0, _name_set is
\* empty; names lists the names given out, insts the functions instantiated
InitNames ==
    /\ KernelAtRest
    /\ script = NoScript
    /\ bv = NoBv
    /\ obj = [kind |-> "blocks", calls |-> [f \in FuncNames |-> 0], name_set |-> {},
              names |-> <<>>, insts |-> {}, clears |-> 0]

\* inst = f(...): block.__call__ names the instance, _Block.__init__ runs the
\* body of f
Instantiate ==
    /\ \E f \in FuncNames :
        /\ Len(obj.names) + 1 + Len(Body(f)) <= MaxNames
        /\ obj' = [RunBody(block_call(obj, f), Body(f)) EXCEPT !.insts = @ \cup {f}]
    /\ UNCHANGED kernel
    /\ UNCHANGED <<script, bv>>

\* inst._clear(): the function is run again, then every call counter is reset
Clear ==
    /\ \E f \in obj.insts :
        /\ Len(obj.names) + Len(Body(f)) <= MaxNames
        /\ obj' = [RunBody(obj, Body(f)) EXCEPT !.calls = [g \in FuncNames |-> 0],
                                                 !.clears = IF @ < 2 THEN @ + 1 ELSE @]
    /\ UNCHANGED kernel
    /\ UNCHANGED <<script, bv>>

NextNames ==
    \/ Instantiate
    \/ Clear

SpecNames == InitNames /\ [][NextNames]_vars

\* ------------------------------------------------------------ block construction

\* what a block function may hand back: a process (an instantiator), a
\* sub-block instance, a Cosimulation, a process made outside any block
\* (its modctxt is false), None, an integer, a bare generator
ItemKinds == {"proc", "block", "cosim", "noctx", "none", "int", "gen"}
Leaves == {[k |-> x] : x \in ItemKinds}
\* a list or tuple of at most MaxWidth members, alone or after another member
\* in a list
MaxWidth == 2
\* no more names than this are handed out while blocks are constructed
MaxBuilt == 3
SeqsUpTo(S) == UNION {[1..n -> S] : n \in 0..MaxWidth}
Lists1 == {[k |-> "list", items |-> q] : q \in SeqsUpTo(Leaves)}
Lists2 == {[k |-> "list", items |-> <<l>>] : l \in Lists1}
            \cup {[k |-> "list", items |-> <<a, l>>] : a \in Leaves, l \in Lists1}
Returns == Leaves \cup Lists1 \cup Lists2

\* _flatten: the members of nested lists and tuples, in order
RECURSIVE flatten(_)
RECURSIVE flattenAll(_)
flatten(x) == IF x.k = "list" THEN flattenAll(x.items) ELSE <<x>>

flattenAll(q) == IF q = <<>> THEN <<>> ELSE flatten(Head(q)) \o flattenAll(Tail(q))

\* a check that looks at the first member only
Block_verifySubs_first(subs) ==
    IF subs # <<>> /\ subs[1].k \notin {"block", "proc", "cosim"} THEN "BlockError"
    ELSE "none"

\* _Block._verifySubs: the exception it raises
Block_verifySubs(subs) ==
    IF \E i \in DOMAIN subs :
          \/ subs[i].k \notin {"block", "proc", "noctx", "cosim"}
          \/ subs[i].k = "noctx"
    THEN "BlockError"
    ELSE "none"

\* the sub-blocks the body has instantiated for the value it returns
SubBlocks(subs) == [i \in 1..Len(SelectSeq(subs, LAMBDA x : x.k = "block")) |-> "f"]

\* no block has been instantiated
InitBuild ==
    /\ KernelAtRest
    /\ script = NoScript
    /\ bv = NoBv
    /\ obj = [kind |-> "build", calls |-> [f \in FuncNames |-> 0], name_set |-> {},
              names |-> <<>>, blocks |-> <<>>, ret |-> [k |-> "none"], exc |-> "none"]

\* inst = top(...), where the body of top returns ret: block.__call__ names
\* the instance, _Block.__init__ runs the body, flattens what it returns and
\* verifies it; an exception leaves no instance
Construct ==
    /\ obj.exc = "none" /\ obj.ret = [k |-> "none"]
    /\ \E ret \in Returns :
        LET subs == flatten(ret)
            o == RunBody(block_call(obj, "top"), SubBlocks(subs))
            exc == Block_verifySubs(subs)
        IN /\ Len(o.names) <= MaxBuilt
           /\ obj' = [o EXCEPT !.ret = ret,
                               !.exc = exc,
                               !.blocks = IF exc = "none"
                                          THEN Append(@, [name |-> o.names[Len(obj.names) + 1],
                                                          subs |-> Len(subs)])
                                          ELSE @]
    /\ UNCHANGED kernel
    /\ UNCHANGED <<script, bv>>

\* the caller goes on, with the instance or after handling the exception
Proceed ==
    /\ obj.ret # [k |-> "none"]
    /\ obj' = [obj EXCEPT !.exc = "none", !.ret = [k |-> "none"]]
    /\ UNCHANGED kernel
    /\ UNCHANGED <<script, bv>>

NextBuild ==
    \/ Construct
    \/ Proceed

SpecBuild == InitBuild /\ [][NextBuild]_vars

\* ------------------------------------------------------------ conversion

\* what is handed to a converter: an instance of a decorated block (_Block),
\* the decorated function itself (block) or a plain function; hierFails and
\* invalid tell whether hierarchy extraction and the analysis of the design
\* raise.  The three designs of test_newconverter.py are valid block instances.
DesignNames == {"contrived", "contrived3", "contrived4"}
FuncKinds == {"_Block", "block", "function"}
ConvFuncs ==
    {f \in [name : DesignNames, kind : FuncKinds, hierFails : BOOLEAN, invalid : BOOLEAN] :
        /\ f.kind # "_Block" => (f.hierFails /\ ~f.invalid)
        /\ f.hierFails => ~f.invalid}
Supported(f) == f.kind = "_Block" /\ ~f.hierFails /\ ~f.invalid
HasFunc(f) == f.kind \in {"_Block", "block"}
Callable(f) == f.kind \in {"block", "function"}

Hdls == {"VHDL", "Verilog", "SystemVerilog"}
Converters == {"Converter", "HdlConvertor"}

\* no more output files than this are opened in a run
MaxFiles == 2

NoFunc == [name |-> "", kind |-> "", hierFails |-> FALSE, invalid |-> FALSE]
NoCall == [conv |-> "", hdl |-> "", func |-> NoFunc]
NoRet == [api |-> "", func |-> NoFunc, outcome |-> "none", value |-> 0, exc |-> "",
          nested |-> FALSE, wrote |-> FALSE]

\* a call that returned (a number, the top block, an elaborated instance) or raised
Returned(o, api, f, outcome, value, nested, wrote) ==
    [o EXCEPT !.ret = [api |-> api, func |-> f, outcome |-> outcome, value |-> value,
                       exc |-> "", nested |-> nested, wrote |-> wrote]]
Raised(o, api, f, exc, nested, wrote) ==
    [o EXCEPT !.ret = [api |-> api, func |-> f, outcome |-> "raise", value |-> 0,
                       exc |-> exc, nested |-> nested, wrote |-> wrote]]

\* `return func(*args, **kwargs)  # skip`: a _Block instance has no __call__
Skip(o, api, f) ==
    IF Callable(f) THEN Returned(o, api, f, "elaborated", 0, TRUE, FALSE)
    ELSE Raised(o, api, f, "TypeError", TRUE, FALSE)

\* _Converter.__call__ up to the call of _getHierarchy; named: the converter
\* was given a name, so that func.func.__name__ is not looked up
Converter_call_enter(o, hdl, named, f) ==
    IF o.converting["Converter"] = 1 THEN Skip(o, "Converter", f)
    ELSE IF o.tracing THEN Raised(o, "Converter", f, "ConversionError", FALSE, FALSE)
    ELSE LET o1 == [o EXCEPT !.converting["Converter"] = 1]
         IN IF ~named /\ ~HasFunc(f)
            THEN Raised(o1, "Converter", f, "AttributeError", FALSE, FALSE)
            ELSE [o1 EXCEPT !.pc = "hier",
                            !.cur = [conv |-> "Converter", hdl |-> hdl, func |-> f]]

\* the writer calls of _Converter.__call__: VerilogWriter.writeFileHeader
\* wants a sourcepath, VhdlWriter has no writeFileHeader, no writer has
\* writeSigDecls
Converter_write(o, hdl, f) ==
    IF hdl = "Verilog" THEN Raised(o, "Converter", f, "TypeError", FALSE, TRUE)
    ELSE Raised(o, "Converter", f, "AttributeError", FALSE, TRUE)

\* _Converter.__call__ from the return of _getHierarchy on
Converter_call_leave(o) ==
    LET f == o.cur.func
        o1 == [o EXCEPT !.converting["Converter"] = 0, !.pc = "idle", !.cur = NoCall]
        o2 == [o1 EXCEPT !.files = @ + 1]
    IN IF f.hierFails THEN Raised(o1, "Converter", f, "HierarchyError", FALSE, FALSE)
       ELSE IF f.invalid THEN Raised(o2, "Converter", f, "ConversionError", FALSE, TRUE)
       ELSE Converter_write(o2, o.cur.hdl, f)

\* HdlConvertor.__call__ up to the call of _getHierarchy; hasHdl: the
\* attribute hdl was added to the convertor
HdlConvertor_call_enter(o, hasHdl, f) ==
    IF ~hasHdl THEN Raised(o, "HdlConvertor", f, "AttributeError", FALSE, FALSE)
    ELSE IF o.converting["HdlConvertor"] = 1 THEN Skip(o, "HdlConvertor", f)
    ELSE IF o.tracing THEN Raised(o, "HdlConvertor", f, "ConversionError", FALSE, FALSE)
    ELSE IF f.kind # "_Block" THEN Raised(o, "HdlConvertor", f, "ConversionError", FALSE, FALSE)
    ELSE [o EXCEPT !.converting["HdlConvertor"] = 1, !.pc = "hier",
                   !.cur = [conv |-> "HdlConvertor", hdl |-> "", func |-> f]]

\* HdlConvertor.__call__ from the return of _getHierarchy on: it returns h.top
HdlConvertor_call_leave(o) ==
    LET f == o.cur.func
        o1 == [o EXCEPT !.converting["HdlConvertor"] = 0, !.pc = "idle", !.cur = NoCall]
    IN IF f.hierFails THEN Raised(o1, "HdlConvertor", f, "HierarchyError", FALSE, FALSE)
       ELSE IF f.invalid THEN Raised(o1, "HdlConvertor", f, "ConversionError", FALSE, FALSE)
       ELSE Returned(o1, "HdlConvertor", f, "block", 0, FALSE, FALSE)

\* _Block.convert: its first statement imports the name Converter, which
\* myhdl.conversion._converter does not define
Block_convert(o, hdl, f) == Raised(o, "convert", f, "ImportError", FALSE, FALSE)

\* myhdl.conversion.analyze and verify: the number of errors, 0 on success
conversion_analyze(o, api, f) ==
    Returned(o, api, f, "number", IF f.invalid THEN 1 ELSE 0, FALSE, FALSE)

InitConv ==
    /\ KernelAtRest
    /\ script = NoScript
    /\ bv = NoBv
    /\ obj = [kind |-> "conv", converting |-> [c \in Converters |-> 0], tracing |-> FALSE,
              pc |-> "idle", cur |-> NoCall, files |-> 0, ret |-> NoRet]

\* converter(func) at top level
ConverterCall ==
    /\ obj.pc = "idle"
    /\ obj.files < MaxFiles
    /\ \E hdl \in Hdls, named \in BOOLEAN, f \in ConvFuncs :
        obj' = Converter_call_enter(obj, hdl, named, f)
    /\ UNCHANGED kernel
    /\ UNCHANGED <<script, bv>>

\* converter(func) while a conversion extracts the hierarchy
ConverterNested ==
    /\ obj.pc = "hier"
    /\ obj.cur.conv = "Converter"
    /\ \E hdl \in Hdls, named \in BOOLEAN, f \in ConvFuncs :
        obj' = Converter_call_enter(obj, hdl, named, f)
    /\ UNCHANGED kernel
    /\ UNCHANGED <<script, bv>>

\* _getHierarchy returns or raises, and the converter carries on
ConverterReturn ==
    /\ obj.pc = "hier"
    /\ obj.cur.conv = "Converter"
    /\ obj' = Converter_call_leave(obj)
    /\ UNCHANGED kernel
    /\ UNCHANGED <<script, bv>>

HdlConvertorCall ==
    /\ obj.pc = "idle"
    /\ \E hasHdl \in BOOLEAN, f \in ConvFuncs :
        obj' = HdlConvertor_call_enter(obj, hasHdl, f)
    /\ UNCHANGED kernel
    /\ UNCHANGED <<script, bv>>

HdlConvertorNested ==
    /\ obj.pc = "hier"
    /\ obj.cur.conv = "HdlConvertor"
    /\ \E f \in ConvFuncs : obj' = HdlConvertor_call_enter(obj, TRUE, f)
    /\ UNCHANGED kernel
    /\ UNCHANGED <<script, bv>>

HdlConvertorReturn ==
    /\ obj.pc = "hier"
    /\ obj.cur.conv = "HdlConvertor"
    /\ obj' = HdlConvertor_call_leave(obj)
    /\ UNCHANGED kernel
    /\ UNCHANGED <<script, bv>>

\* inst.convert(hdl)
BlockConvert ==
    /\ obj.pc = "idle"
    /\ \E hdl \in Hdls, f \in ConvFuncs :
        /\ f.kind = "_Block"
        /\ obj' = Block_convert(obj, hdl, f)
    /\ UNCHANGED kernel
    /\ UNCHANGED <<script, bv>>

\* inst.analyze_convert()
BlockAnalyze ==
    /\ obj.pc = "idle"
    /\ \E f \in ConvFuncs :
        /\ f.kind = "_Block"
        /\ ~f.hierFails
        /\ obj' = conversion_analyze(obj, "analyze_convert", f)
    /\ UNCHANGED kernel
    /\ UNCHANGED <<script, bv>>

\* inst.verify_convert()
BlockVerify ==
    /\ obj.pc = "idle"
    /\ \E f \in ConvFuncs :
        /\ f.kind = "_Block"
        /\ ~f.hierFails
        /\ obj' = conversion_analyze(obj, "verify_convert", f)
    /\ UNCHANGED kernel
    /\ UNCHANGED <<script, bv>>

\* traceSignals starts or stops tracing
SetTracing ==
    /\ obj.pc = "idle"
    /\ obj' = [obj EXCEPT !.tracing = ~@]
    /\ UNCHANGED kernel
    /\ UNCHANGED <<script, bv>>

NextConv ==
    \/ ConverterCall
    \/ ConverterNested
    \/ ConverterReturn
    \/ HdlConvertorCall
    \/ HdlConvertorNested
    \/ HdlConvertorReturn
    \/ BlockConvert
    \/ BlockAnalyze
    \/ BlockVerify
    \/ SetTracing

SpecConv == InitConv /\ [][NextConv]_vars

\* ------------------------------------------------------------ validation of a design

\* a top-level argument of the converted block: a signal (named unless a
\* local shadows it, possibly also element of a list), an OpenPort or a list
\* of signals; driven is "" for _driven = None
WPorts == [named : BOOLEAN, inList : BOOLEAN, kind : {"signal", "OpenPort", "list"},
           driven : {"", "reg", "wire"}, read : BOOLEAN]

\* an internal signal of the design: drivers is the number of processes that
\* assign it, nrbits its bit width (0: none), modFull tells whether a modular
\* vector spans the full range of its width
WSigs ==
    {s \in [used : BOOLEAN, driven : {"", "reg"}, drivers : 0 .. 2, read : BOOLEAN,
            const : BOOLEAN, nrbits : {0, 8}, modFull : BOOLEAN] :
        /\ (s.driven = "") <=> (s.drivers = 0)
        /\ s.const => s.driven = ""
        /\ (~s.used) => (s.driven = "" /\ ~s.read /\ s.nrbits = 8 /\ s.modFull /\ ~s.const)}

\* the anomalies of a design
UndrivenSignal(d) == d.sig.used /\ d.sig.driven = "" /\ d.sig.read /\ ~d.sig.const
UnreadSignal(d) == d.sig.used /\ d.sig.driven # "" /\ ~d.sig.read
SigMultipleDriven(d) == d.sig.drivers > 1
UndefinedBitWidth(d) == d.sig.used /\ d.sig.nrbits = 0
ModbvRange(d) == d.sig.used /\ ~d.sig.modFull
ShadowingSignal(d) == d.port.kind # "list" /\ ~d.port.named
PortInList(d) == d.port.kind # "list" /\ d.port.inList
ListAsPort(d) == d.port.kind = "list"
UnreadOutput(d) == d.port.kind = "signal" /\ d.port.driven # "" /\ ~d.port.read
UnusedPort(d) == d.port.kind = "signal" /\ d.port.driven = "" /\ ~d.port.read

Fail(o, err) == [o EXCEPT !.stage = "failed", !.err = err]

\* _analyzeGens and _analyzeSigs
analyzeSigs(o) ==
    IF SigMultipleDriven(o.d) THEN Fail(o, "SigMultipleDriven")
    ELSE IF ModbvRange(o.d) THEN Fail(o, "ModbvRange")
    ELSE IF UndefinedBitWidth(o.d) THEN Fail(o, "UndefinedBitWidth")
    ELSE [o EXCEPT !.stage = "analyzed"]

\* _AnalyzeTopFuncVisitor.visit_FunctionDef: only signals become ports
AnalyzeTopFunc_visit_FunctionDef(o) ==
    IF o.d.port.kind = "list" THEN Fail(o, "ListAsPort")
    ELSE [o EXCEPT !.stage = "interfaced"]

\* a module header that lets a port in a list through
VerilogWriter_writeModuleHeader_lax(o) ==
    LET p == o.d.port
    IN IF ~p.named THEN Fail(o, "ShadowingSignal")
       ELSE IF p.kind = "OpenPort" THEN [o EXCEPT !.stage = "header"]
       ELSE IF p.driven \in {"reg", "wire"}
            THEN [o EXCEPT !.stage = "header", !.emitted = @ \cup {"output"}]
       ELSE IF ~p.read
            THEN [o EXCEPT !.stage = "header", !.warnings = @ \cup {"UnusedPort"}]
       ELSE [o EXCEPT !.stage = "header", !.emitted = @ \cup {"input"}]

\* VerilogWriter.writeModuleHeader, the ANSI-style declaration (the standard
\* of the writer is '2005')
VerilogWriter_writeModuleHeader(o) ==
    LET p == o.d.port
    IN IF ~p.named THEN Fail(o, "ShadowingSignal")
       ELSE IF p.inList THEN Fail(o, "PortInList")
       ELSE IF p.kind = "OpenPort" THEN [o EXCEPT !.stage = "header"]
       ELSE IF p.driven \in {"reg", "wire"}
            THEN [o EXCEPT !.stage = "header", !.emitted = @ \cup {"output"}]
       ELSE IF ~p.read
            THEN [o EXCEPT !.stage = "header", !.warnings = @ \cup {"UnusedPort"}]
       ELSE [o EXCEPT !.stage = "header", !.emitted = @ \cup {"input"}]

\* VerilogWriter.writeDecls for the internal signal: an undriven signal gets
\* a warning, a wire and a continuous assignment of its initial value
VerilogWriter_writeDecls(o) ==
    LET s == o.d.sig
    IN IF ~s.used THEN [o EXCEPT !.stage = "done"]
       ELSE IF s.driven # ""
            THEN [o EXCEPT !.stage = "done",
                           !.warnings = IF ~s.read THEN @ \cup {"UnreadSignal"} ELSE @,
                           !.emitted = @ \cup {s.driven}]
       ELSE IF s.read
            THEN IF s.const
                 THEN [o EXCEPT !.stage = "done", !.emitted = @ \cup {"localparam"}]
                 ELSE [o EXCEPT !.stage = "done",
                                !.warnings = @ \cup {"UndrivenSignal"},
                                !.emitted = @ \cup {"wire", "assign"}]
       ELSE [o EXCEPT !.stage = "done"]

NoDesign ==
    [port |-> [named |-> TRUE, inList |-> FALSE, kind |-> "OpenPort", driven |-> "",
               read |-> FALSE],
     sig |-> [used |-> FALSE, driven |-> "", drivers |-> 0, read |-> FALSE,
              const |-> FALSE, nrbits |-> 8, modFull |-> TRUE]]

InitWriter ==
    /\ KernelAtRest
    /\ script = NoScript
    /\ bv = NoBv
    /\ obj = [kind |-> "writer", d |-> NoDesign, stage |-> "idle", err |-> "",
              warnings |-> {}, emitted |-> {}]

\* a design is handed to the converter
StartConversion ==
    /\ obj.stage \in {"idle", "done", "failed"}
    /\ \E p \in WPorts, s \in WSigs :
        obj' = [kind |-> "writer", d |-> [port |-> p, sig |-> s], stage |-> "new",
                err |-> "", warnings |-> {}, emitted |-> {}]
    /\ UNCHANGED kernel
    /\ UNCHANGED <<script, bv>>

AnalyzeSigs ==
    /\ obj.stage = "new"
    /\ obj' = analyzeSigs(obj)
    /\ UNCHANGED kernel
    /\ UNCHANGED <<script, bv>>

InferInterface ==
    /\ obj.stage = "analyzed"
    /\ obj' = AnalyzeTopFunc_visit_FunctionDef(obj)
    /\ UNCHANGED kernel
    /\ UNCHANGED <<script, bv>>

WriteModuleHeader ==
    /\ obj.stage = "interfaced"
    /\ obj' = VerilogWriter_writeModuleHeader(obj)
    /\ UNCHANGED kernel
    /\ UNCHANGED <<script, bv>>

WriteDecls ==
    /\ obj.stage = "header"
    /\ obj' = VerilogWriter_writeDecls(obj)
    /\ UNCHANGED kernel
    /\ UNCHANGED <<script, bv>>

NextWriter ==
    \/ StartConversion
    \/ AnalyzeSigs
    \/ InferInterface
    \/ WriteModuleHeader
    \/ WriteDecls

SpecWriter == InitWriter /\ [][NextWriter]_vars

\* ------------------------------------------------------------ emission of a process body

\* the statements of a process body: an assignment has a right-hand side
\* (an expression, a list of constants indexed by a signal, a list
\* comprehension) and a target (sig.next, a variable, the next of an
\* OpenPort); an expression statement is a string, a constant or a call
Roms == {<<10>>, <<10, 20>>, <<3, 1, 2>>, <<10, 20, 30, 40, 50, 60, 70, 80>>}
EmittedKinds == {"Assign", "AugAssign", "Assert", "Break", "Continue", "Expr", "For", "If",
                 "Pass", "Raise", "Return", "While", "Yield"}
UnsupportedKinds == {"Delete", "Global", "Try", "With"}
SrcLines == {3, 4}
StmtNodes ==
    {n \in [kind : EmittedKinds \cup UnsupportedKinds, value : {"", "expr", "rom", "listcomp", "str", "const", "call"},
            target : {"", "sig", "var", "OpenPort"}, rom : Roms \cup {<<>>}, line : SrcLines] :
        /\ (n.kind = "Assign") => (n.value \in {"expr", "rom", "listcomp"} /\ n.target # "")
        /\ (n.kind = "Expr") => (n.value \in {"str", "const", "call"} /\ n.target = "")
        /\ (n.kind \notin {"Assign", "Expr"}) => (n.value = "" /\ n.target = "")
        /\ (n.value = "rom") <=> (n.rom # <<>>)
        /\ (n.value = "rom") => (n.target \in {"sig", "var"})
        /\ (n.value = "listcomp") => (n.target = "var")}

\* no more statements than this in a process body, no more processes in a run
MaxBody == 2
MaxProcs == 1

\* emitted text: a plain statement, or a case statement with its branches
Text(n) == <<[t |-> "text", of |-> n.kind, branches |-> <<>>]>>
NoError == [kind |-> "", node |-> "", line |-> 0]

\* branches with a label for every element and a default after them
RomBranches_all(rom, target) ==
    [i \in 1 .. Len(rom) + 1 |->
        [default |-> (i = Len(rom) + 1), label |-> i - 1,
         op |-> IF target = "sig" THEN "<=" ELSE "=",
         value |-> IF i <= Len(rom) THEN rom[i] ELSE 0]]

\* the branches written for a ROM: the index as label, the last one default
RomBranches(rom, target) ==
    [i \in 1 .. Len(rom) |->
        [default |-> (i - 1 = Len(rom) - 1), label |-> i - 1,
         op |-> IF target = "sig" THEN "<=" ELSE "=", value |-> rom[i]]]

\* _ConvertVisitor.visit_Assign
ConvertVisitor_visit_Assign(n) ==
    IF n.value = "rom"
    THEN <<[t |-> "case", of |-> n.kind, branches |-> RomBranches(n.rom, n.target)]>>
    ELSE IF n.value = "listcomp" THEN <<>>
    ELSE IF n.target = "OpenPort" THEN <<>>
    ELSE Text(n)

\* _ConvertVisitor.visit_Expr: a docstring becomes a comment, a constant is skipped
ConvertVisitor_visit_Expr(n) ==
    IF n.value = "const" THEN <<>> ELSE Text(n)

\* a visitor that has no method for the raise statement
ConvertVisitor_visit_noRaise(n) ==
    IF n.kind = "Assign" THEN ConvertVisitor_visit_Assign(n)
    ELSE IF n.kind = "Expr" THEN ConvertVisitor_visit_Expr(n)
    ELSE IF n.kind \in EmittedKinds \ {"Raise"} THEN Text(n)
    ELSE <<>>

\* _ConvertVisitor.visit: the visit method of the node kind, or generic_visit,
\* which writes nothing for the node itself
ConvertVisitor_visit(n) ==
    IF n.kind = "Assign" THEN ConvertVisitor_visit_Assign(n)
    ELSE IF n.kind = "Expr" THEN ConvertVisitor_visit_Expr(n)
    ELSE IF n.kind \in EmittedKinds THEN Text(n)
    ELSE <<>>

\* the analyser refuses a node kind the emitter cannot write:
\* raiseError(node, _error.NotSupported, ...) names the kind, file and line
analyze_visit(n) ==
    IF n.kind \in UnsupportedKinds
    THEN [kind |-> "NotSupported", node |-> n.kind, line |-> n.line]
    ELSE NoError

\* the value the emitted case statement gives its target for an index
CaseValue(branches, sel) ==
    LET hit == {i \in DOMAIN branches : ~branches[i].default /\ branches[i].label = sel}
        dflt == {i \in DOMAIN branches : branches[i].default}
    IN IF hit # {} THEN branches[CHOOSE i \in hit : TRUE].value
       ELSE branches[CHOOSE i \in dflt : TRUE].value

InitEmit ==
    /\ KernelAtRest
    /\ script = NoScript
    /\ bv = NoBv
    /\ obj = [kind |-> "emit", log |-> <<>>, err |-> NoError, procs |-> 0]

\* one statement of the body is analysed and written
VisitStmt ==
    /\ obj.err = NoError
    /\ Len(obj.log) < MaxBody
    /\ \E n \in StmtNodes :
        LET e == analyze_visit(n)
        IN obj' = IF e # NoError THEN [obj EXCEPT !.err = e, !.log = Append(@, [node |-> n, out |-> <<>>])]
                  ELSE [obj EXCEPT !.log = Append(@, [node |-> n, out |-> ConvertVisitor_visit(n)])]
    /\ UNCHANGED kernel
    /\ UNCHANGED <<script, bv>>

\* the conversion of the next process starts
NextProcess ==
    /\ obj.log # <<>>
    /\ obj.procs < MaxProcs
    /\ obj' = [kind |-> "emit", log |-> <<>>, err |-> NoError, procs |-> obj.procs + 1]
    /\ UNCHANGED kernel
    /\ UNCHANGED <<script, bv>>

NextEmit ==
    \/ VisitStmt
    \/ NextProcess

SpecEmit == InitEmit /\ [][NextEmit]_vars

\* ------------------------------------------------------------ writes to next

\* largest integer written to next, and the longest _siglist
NextMax == 4
MaxQueue == 2

\* what user code assigns to sig.next: an integer or an object of another type
NextWrites == [ty : {"int"}, v : -1 .. NextMax] \cup {[ty |-> "str", v |-> 0]}

\* a bit signal, an integer signal, and an intbv signal with min 0 and max NextMax
TypedSignal(type) == NewSignal(0, type, FALSE, 0) @@ [min |-> 0, max |-> NextMax]

\* _Signal._setNextBit on a written object: `val in [0, 1, True, False]`
Signal_setNextBit(sg, w) ==
    IF w.ty # "int" \/ w.v \notin {0, 1}
    THEN [exc |-> "ValueError", sig |-> sg]
    ELSE [exc |-> "", sig |-> [sg EXCEPT !.next = w.v]]

\* _Signal._setNextInt
Signal_setNextInt(sg, w) ==
    IF w.ty # "int"
    THEN [exc |-> "TypeError", sig |-> sg]
    ELSE [exc |-> "", sig |-> [sg EXCEPT !.next = w.v]]

\* _Signal._setNextIntbv: the value is stored in the intbv held by _next,
\* then that intbv checks its bounds
Signal_setNextIntbv(sg, w) ==
    IF w.ty # "int"
    THEN [exc |-> "TypeError", sig |-> sg]
    ELSE LET n == [sg EXCEPT !.next = w.v]
         IN IF intbv_handleBounds([val |-> n.next, min |-> n.min, max |-> n.max])
            THEN [exc |-> "ValueError", sig |-> n]
            ELSE [exc |-> "", sig |-> n]

Signal_setNextVal(sg, w) ==
    IF sg.type = "bit" THEN Signal_setNextBit(sg, w)
    ELSE IF sg.type = "int" THEN Signal_setNextInt(sg, w)
    ELSE Signal_setNextIntbv(sg, w)

\* the processes registered on the lists of the signal
Registered(sg) ==
    {sg.ev[i].p : i \in DOMAIN sg.ev} \cup {sg.pos[i].p : i \in DOMAIN sg.pos}
        \cup {sg.neg[i].p : i \in DOMAIN sg.neg}

InitNext ==
    /\ KernelAtRest
    /\ script = NoScript
    /\ bv = NoBv
    /\ \E type \in {"bit", "int", "intbv"} :
        obj = [kind |-> "sig", sig |-> TypedSignal(type), siglist |-> <<>>, woken |-> <<>>,
               exc |-> "", op |-> "init", pre |-> TypedSignal(type), stored |-> 0,
               lastOk |-> TRUE, queued |-> 0]

\* sig.next = w: the setter of the type stores the value, then the signal is
\* queued; a raising setter queues nothing
WriteNext ==
    /\ Len(obj.siglist) < MaxQueue
    /\ \E w \in NextWrites :
        LET r == Signal_setNextVal(obj.sig, w)
        IN obj' = [obj EXCEPT !.sig = r.sig,
                              !.siglist = IF r.exc = "" THEN Append(@, "a") ELSE @,
                              !.exc = r.exc, !.op = "write", !.pre = obj.sig,
                              !.stored = IF r.exc = "" THEN w.v ELSE @,
                              !.lastOk = (r.exc = ""),
                              !.woken = <<>>]
    /\ UNCHANGED kernel
    /\ UNCHANGED <<script, bv>>

\* a read of sig.next (as in sig.next[i] = v): the getter queues the signal
ReadNext ==
    /\ Len(obj.siglist) < MaxQueue
    /\ obj' = [obj EXCEPT !.siglist = Append(@, "a"), !.exc = "", !.op = "read",
                          !.pre = obj.sig, !.woken = <<>>]
    /\ UNCHANGED kernel
    /\ UNCHANGED <<script, bv>>

\* a process yields sig, sig.posedge or sig.negedge
WaitOn ==
    /\ \E p \in Procs \ Registered(obj.sig), k \in {"ev", "pos", "neg"} :
        obj' = [obj EXCEPT !.sig[k] = Append(@, Waiter(p, FALSE)), !.exc = "", !.op = "wait",
                           !.pre = obj.sig, !.woken = <<>>]
    /\ UNCHANGED kernel
    /\ UNCHANGED <<script, bv>>

\* the end of the delta cycle: every entry of _siglist is updated
UpdateNext ==
    /\ obj.siglist # <<>>
    /\ LET r == UpdateQueued([s \in {"a"} |-> obj.sig], <<>>, <<>>, obj.siglist, 0)
       IN obj' = [obj EXCEPT !.sig = r.sigs["a"], !.siglist = <<>>, !.woken = r.waiters,
                             !.exc = "", !.op = "update", !.pre = obj.sig,
                             !.queued = Len(obj.siglist)]
    /\ UNCHANGED kernel
    /\ UNCHANGED <<script, bv>>

NextNext ==
    \/ WriteNext
    \/ ReadNext
    \/ WaitOn
    \/ UpdateNext

SpecNext == InitNext /\ [][NextNext]_vars

\* ------------------------------------------------------------ type annotation

\* the operands of a binary operation: names bound to a signal or intbv with
\* a lower bound and a bit width
AnnMins == {-4, 0}
AnnWidths == {3, 8}
Operands == [min : AnnMins, nrbits : AnnWidths]
BitOps == {"BitAnd", "BitOr", "BitXor"}
BinOps == BitOps \cup {"Add", "Sub", "RShift"}

\* _maybeNegative
maybeNegative(o) == o.min < 0

\* _AnnotateTypesVisitor.getName: node.signed of a name that is read
Annotate_getName(o) == [obj |-> o, signed |-> maybeNegative(o)]

\* an annotation that takes a mixed operation for unsigned
Annotate_visit_BinOp_both(by, op, l, r, isRhs) ==
    [op |-> op, left |-> l, right |-> r,
     signed |-> IF by = "_converter" /\ op = "Sub" /\ ~isRhs THEN TRUE
                ELSE l.signed /\ r.signed]

\* _AnnotateTypesVisitor.visit_BinOp of _annotate.py and of _converter.py,
\* the latter with its special case of a subtraction outside a top-level
\* right-hand side
Annotate_visit_BinOp(by, op, l, r, isRhs) ==
    [op |-> op, left |-> l, right |-> r,
     signed |-> IF by = "_converter" /\ op = "Sub" /\ ~isRhs THEN TRUE
                ELSE l.signed \/ r.signed]

\* _ConvertVisitor.getName in the context set by visit_BinOp: an unsigned
\* name in a signed expression gets a sign bit
ConvertVisitor_getName(n, context) ==
    IF ~n.signed /\ context = "SIGNED" THEN "$signed({1'b0, x})" ELSE "x"

\* _ConvertVisitor.visit_BinOp: the text written for the node and its operands
ConvertVisitor_visit_BinOp(node) ==
    LET context == IF node.signed THEN "SIGNED" ELSE "None"
    IN [cast |-> (node.op = "RShift" /\ node.signed),
        left |-> ConvertVisitor_getName(node.left, context),
        right |-> ConvertVisitor_getName(node.right, context)]

NoNode == [op |-> "", left |-> Annotate_getName([min |-> 0, nrbits |-> 3]),
           right |-> Annotate_getName([min |-> 0, nrbits |-> 3]), signed |-> FALSE]
NoText == [cast |-> FALSE, left |-> "", right |-> ""]

InitAnn ==
    /\ KernelAtRest
    /\ script = NoScript
    /\ bv = NoBv
    /\ obj = [kind |-> "ann", stage |-> "idle", by |-> "", node |-> NoNode, text |-> NoText]

\* the annotator visits a binary operation of two names
AnnotateBinOp ==
    /\ obj.stage \in {"idle", "written"}
    /\ \E by \in {"_annotate", "_converter"}, op \in BinOps, l \in Operands, r \in Operands,
          isRhs \in BOOLEAN :
        obj' = [kind |-> "ann", stage |-> "annotated", by |-> by,
                node |-> Annotate_visit_BinOp(by, op, Annotate_getName(l),
                                              Annotate_getName(r), isRhs),
                text |-> NoText]
    /\ UNCHANGED kernel
    /\ UNCHANGED <<script, bv>>

\* the emitter visits the annotated node
WriteBinOp ==
    /\ obj.stage = "annotated"
    /\ obj' = [obj EXCEPT !.stage = "written", !.text = ConvertVisitor_visit_BinOp(obj.node)]
    /\ UNCHANGED kernel
    /\ UNCHANGED <<script, bv>>

NextAnn ==
    \/ AnnotateBinOp
    \/ WriteBinOp

SpecAnn == InitAnn /\ [][NextAnn]_vars

\* ------------------------------------------------------------ properties of the kernel

\* a signal changing from v to n: rising is false to true, falling true to false
Rising(v, n) == v = 0 /\ n # 0
Falling(v, n) == v # 0 /\ n = 0

\* the waiters the lists of signal sg hold for a change to n, in list order
ListsWoken(sg, n) ==
    IF sg.val = n THEN <<>>
    ELSE sg.ev \o (IF Rising(sg.val, n) THEN sg.pos ELSE <<>>)
               \o (IF Falling(sg.val, n) THEN sg.neg ELSE <<>>)

\* the same with an edge read as exactly 0->1 and 1->0
ListsWoken01(sg, n) ==
    IF sg.val = n THEN {}
    ELSE Range(sg.ev) \cup (IF sg.val = 0 /\ n = 1 THEN Range(sg.pos) ELSE {})
                      \cup (IF sg.val = 1 /\ n = 0 THEN Range(sg.neg) ELSE {})

\* the plain signals of the queue the last update step worked off
UpdatedPlain == {s \in Range(last.siglist0) : ~last.sigs0[s].delayed}

\* the last apply step found its event fresh
FreshApply ==
    /\ last.kind = "apply"
    /\ last.ev.timeStamp = last.sigs0[last.ev.sig].timeStamp

\* C1 (as amended): the waiters woken by an update step are those of the event
\* lists of the changed signals, of their posedge lists on a change from zero
\* to non-zero and of their negedge lists on a change from non-zero to zero, as
\* the lists were at the update; likewise for the apply of a fresh event; and a
\* woken waiter stays queued until it is its turn
C1_WokenSet ==
    /\ [](/\ last.kind = "update" =>
              Range(waiters_ready) =
                UNION {Range(ListsWoken(last.sigs0[s], last.sigs0[s].next)) : s \in UpdatedPlain}
          /\ last.kind = "apply" =>
              Range(waiters_ready) =
                IF FreshApply
                THEN Range(ListsWoken(last.sigs0[last.ev.sig], last.ev.next))
                ELSE {})
    /\ [][waiters_ready # <<>> =>
            /\ Len(waiters_ready') = Len(waiters_ready) - 1
            /\ \A i \in 2..Len(waiters_ready) :
                /\ waiters_ready'[i - 1].p = waiters_ready[i].p
                /\ waiters_ready[i].p # waiters_ready[1].p =>
                     waiters_ready'[i - 1] = waiters_ready[i]]_vars

\* C1 as stated: the posedge list only on 0->1, the negedge list only on 1->0
C1_Original ==
    last.kind = "update" =>
        Range(waiters_ready) =
            UNION {ListsWoken01(last.sigs0[s], last.sigs0[s].next) : s \in UpdatedPlain}

C1_Witness ==
    /\ last.kind = "update"
    /\ \E s \in UpdatedPlain :
        /\ last.sigs0[s].val = 0 /\ last.sigs0[s].next = 2
        /\ last.sigs0[s].pos # <<>> /\ last.sigs0[s].ev # <<>>
        /\ Range(last.sigs0[s].pos) \subseteq Range(waiters_ready)

\* C2 (as amended): after an update step every queued plain signal holds the
\* next value it had before the step; a queued delayed signal keeps its value
\* and holds the written value once the fresh apply event has run
C2_UpdateTakesNext ==
    /\ last.kind = "update" =>
        \A s \in Range(last.siglist0) :
            IF last.sigs0[s].delayed
            THEN /\ sigs[s].val = last.sigs0[s].val
                 /\ \E i \in DOMAIN futureEvents :
                      /\ futureEvents[i].kind = "wrap" /\ futureEvents[i].sig = s
                      /\ futureEvents[i].next = last.sigs0[s].next
                      /\ futureEvents[i].time = now + last.sigs0[s].delay
            ELSE sigs[s].val = last.sigs0[s].next
    /\ FreshApply => sigs[last.ev.sig].val = last.ev.next

\* C2 as stated: after its update every signal holds its previous next value
C2_Original ==
    last.kind = "update" =>
        \A s \in Range(last.siglist0) : sigs[s].val = last.sigs0[s].next

C2_Witness ==
    /\ last.kind = "update"
    /\ Len(last.siglist0) >= 2
    /\ \E s \in UpdatedPlain :
        /\ last.sigs0[s].val # last.sigs0[s].next
        /\ sigs[s].val = last.sigs0[s].next

LaterWrites ==
    {i \in DOMAIN futureEvents :
        /\ futureEvents[i].kind = "wrap"
        /\ futureEvents[i].sig = last.ev.sig
        /\ futureEvents[i].next # last.ev.next}

\* C5: the apply event of a write after which another value has been written
\* to the delayed signal is stale: it changes no value and wakes no waiter
C5_StaleApply ==
    (last.kind = "apply" /\ LaterWrites # {}) =>
        /\ sigs[last.ev.sig].val = last.sigs0[last.ev.sig].val
        /\ waiters_ready = <<>>

\* C7: of the values written to a delayed signal at one simulated time only
\* the last is applied: the apply event of an earlier one, written at the same
\* time as a later one still scheduled, leaves the signal's value alone
C7_Coalesce ==
    (last.kind = "apply" /\ \E i \in LaterWrites :
            /\ futureEvents[i].timeStamp = last.ev.timeStamp
            /\ futureEvents[i].time = last.ev.time) =>
        sigs[last.ev.sig].val = last.sigs0[last.ev.sig].val

\* position i is the first occurrence of its signal in the queue
FirstAt(list, i) == \A j \in 1..(i - 1) : list[j] # list[i]

\* the waiters woken by working off the queue from position i on: signal after
\* signal in queue order, of each changed plain signal the event list and then
\* the matching edge list
RECURSIVE InListOrder(_, _)
InListOrder(list, i) ==
    IF i > Len(list) THEN <<>>
    ELSE (IF ~sigs[list[i]].delayed /\ FirstAt(list, i)
          THEN ListsWoken(sigs[list[i]], sigs[list[i]].next) ELSE <<>>)
         \o InListOrder(list, i + 1)

\* the waiters registered on signal s that a change to n wakes, in the order
\* in which they were registered on s
RegsWoken(s, n) ==
    IF sigs[s].val = n THEN <<>>
    ELSE LET sel == SelectSeq(regs[s], LAMBDA e :
                        \/ e.k = "ev"
                        \/ (e.k = "pos" /\ Rising(sigs[s].val, n))
                        \/ (e.k = "neg" /\ Falling(sigs[s].val, n)))
         IN [i \in DOMAIN sel |-> sel[i].w]

RECURSIVE InRegOrder(_, _)
InRegOrder(list, i) ==
    IF i > Len(list) THEN <<>>
    ELSE (IF ~sigs[list[i]].delayed /\ FirstAt(list, i)
          THEN RegsWoken(list[i], sigs[list[i]].next) ELSE <<>>)
         \o InRegOrder(list, i + 1)

\* the registrations of kind k on a signal, in registration order
RegList(rg, k) ==
    LET sel == SelectSeq(rg, LAMBDA e : e.k = k) IN [i \in DOMAIN sel |-> sel[i].w]

\* C4 (as amended): every waiter list holds its waiters in registration
\* order; an update step works off the queued signals in queue order and wakes,
\* per changed signal, the waiters of the event list before those of the edge
\* list; and the woken waiters run first in, first out
C4_Order ==
    /\ [](\A s \in Sigs : \A k \in {"ev", "pos", "neg"} :
            ListOf(sigs[s], k) = RegList(regs[s], k))
    /\ [][/\ (waiters_ready = <<>> /\ siglist # <<>>) =>
                waiters_ready' = InListOrder(siglist, 1)
          /\ waiters_ready # <<>> => last'.p = waiters_ready[1].p]_vars

\* C4 as stated: the waiters woken by a signal's update are queued in the
\* order in which they were registered on that signal
C4_Original ==
    [][(waiters_ready = <<>> /\ siglist # <<>>) =>
            waiters_ready' = InRegOrder(siglist, 1)]_vars

C4_Witness ==
    /\ last.kind = "update"
    /\ Range(last.siglist0) = Sigs
    /\ \A s \in Sigs : ~last.sigs0[s].delayed /\ last.sigs0[s].val # last.sigs0[s].next
    /\ \E s \in Sigs : last.sigs0[s].ev # <<>> /\ last.sigs0[s].pos # <<>>
                       /\ Rising(last.sigs0[s].val, last.sigs0[s].next)
    /\ Len(waiters_ready) >= 2

\* the list triggers on whose list process p has a waiter that has not run
LiveIn(p) ==
    {x \in ListTriggers : Waiter(p, FALSE) \in Range(ListOf(sigs[x.s], x.k))}

Count(seq, w) == Cardinality({i \in DOMAIN seq : seq[i] = w})

HasRunEntries ==
    \E s \in Sigs : \E k \in {"ev", "pos", "neg"} :
        \E i \in DOMAIN ListOf(sigs[s], k) : ListOf(sigs[s], k)[i].hasRun

\* C8: the waiter of a parked process is, once, in exactly the lists of the
\* clause it is parked on (of a woken process not yet run: in no other list);
\* the entries of a waiter that has run are purged when the next event is
\* scheduled; and after a process has run no waiter of it is left to run again
\* before it is woken anew
C8_WaiterLists ==
    /\ \A p \in Procs :
        /\ \A x \in ListTriggers : Count(ListOf(sigs[x.s], x.k), Waiter(p, FALSE)) <= 1
        /\ IF Waiter(p, FALSE) \in Range(waiters_ready)
           THEN LiveIn(p) \subseteq awaited[p]
           ELSE LiveIn(p) = awaited[p] \cap ListTriggers
    /\ last.kind \in {"wake", "apply", "suspend", "quiesce"} => ~HasRunEntries
    /\ last.kind = "yield" => Waiter(last.p, FALSE) \notin Range(waiters_ready)

\* a waiter parked on two signals fired for one, was then collected by an
\* update of the other, and was dropped
C8_Witness ==
    /\ last.kind = "skip" /\ last.p = "p1"
    /\ Cardinality(awaited["p1"]) = 2

Scenario6 ==
    /\ sigs["b"].delayed /\ sigs["b"].delay = 10
    /\ script.t2 = 3 /\ script.v1 = 1 /\ script.v2 = 0

\* C6: in the scenario the signal has the value 0 at time 10 and at time 13:
\* the apply event of the first write finds the time stamp of the second and
\* is dropped, the signal never shows 1 and the observer of its posedge is
\* never woken
C6_Supersede ==
    Scenario6 =>
        /\ sigs["b"].val = 0
        /\ awaited["p2"] = {PosT("b")}
        /\ (last.kind = "apply" /\ now = 10) =>
              /\ last.ev.next = 1
              /\ last.ev.timeStamp = 0 /\ last.sigs0["b"].timeStamp = 3
        /\ (last.kind = "apply" /\ now = 13) =>
              /\ last.ev.next = 0
              /\ last.ev.timeStamp = 3 /\ last.sigs0["b"].timeStamp = 3

C6_Witness ==
    /\ Scenario6
    /\ last.kind = "apply" /\ now = 13 /\ script.pc = 3
    /\ sigs["b"].val = 0

\* C10: whatever mutating operations an intbv has gone through, whether they
\* returned or raised, its value lies within its bounds
C10_Bounds == bv.min <= bv.val /\ bv.val < bv.max

\* C11: every write to the next of a Constant, plain or to a bit or a slice,
\* is rejected with PermissionError; the Constant keeps its initial value and
\* is never queued for update
C11_ConstantRejects ==
    /\ obj.op \in {"next_set", "next_setitem", "next_setslice"} =>
            obj.exc = "PermissionError"
    /\ obj.val = obj.init
    /\ ~obj.queued

\* the last statement of the process step taken last
LastStmt == script.prog[Len(script.prog)]

\* C12: after a process step that ends with a.next = b for a Signal b, the
\* pending next value of a is the current value of b as it was at the write,
\* whatever was written to b.next before in the same step, and a is the last
\* signal queued; the step raises only when a value does not fit the type of
\* its target
C12_Unwrap ==
    /\ (last.kind = "yield" /\ last.p = "p1" /\ script.prog # <<>> /\ LastStmt.k = "sig") =>
            /\ sigs[LastStmt.s].next = last.sigs0[LastStmt.b].val
            /\ siglist # <<>> /\ siglist[Len(siglist)] = LastStmt.s
    /\ (last.kind = "raise" /\ script.prog # <<>>) =>
            \E i \in DOMAIN script.prog :
                LET st == script.prog[i] IN
                /\ last.sigs0[st.s].type = "bit"
                /\ (IF st.k = "sig" THEN last.sigs0[st.b].val ELSE st.v) \notin {0, 1}

\* b.next is written first, then b is assigned to a.next: a gets the value b
\* still holds, not the one just written
C12_Witness ==
    /\ last.kind = "yield" /\ Len(script.prog) = 2
    /\ script.prog[1].k = "val" /\ script.prog[1].s = "b"
    /\ LastStmt.k = "sig" /\ LastStmt.s = "a" /\ LastStmt.b = "b"
    /\ sigs["b"].val = 1 /\ sigs["b"].next = 0
    /\ sigs["a"].next = 1

\* the scenario: clk toggles every 5 time units, d = 1 at t = 3, d = 0 at t = 17
ScenarioDff == script.half = 5 /\ script.t1 = 3 /\ script.t2 = 17

\* the delta cycles of the current time have run out
Settled == waiters_ready = <<>> /\ siglist = <<>>

\* C13 (as amended): in the scenario q is 0 up to the rising edge of clk at
\* t = 5, 1 from then up to the rising edge at t = 25, the first after d went
\* to 0, and 0 from then on; at t = 15 d is still 1 and q stays 1
C13_Dff ==
    ScenarioDff =>
        /\ now < 5 => sigs["q"].val = 0
        /\ (now = 5 /\ Settled) => sigs["q"].val = 1
        /\ (5 < now /\ now < 25) => sigs["q"].val = 1
        /\ (now = 25 /\ Settled) => sigs["q"].val = 0
        /\ now > 25 => sigs["q"].val = 0

\* C13 as stated: q is 0 during [0..5], 1 during [5..15], 0 from t = 15 on
C13_Original ==
    ScenarioDff =>
        /\ now < 5 => sigs["q"].val = 0
        /\ (5 < now /\ now < 15) => sigs["q"].val = 1
        /\ now > 15 => sigs["q"].val = 0

C13_Witness ==
    /\ ScenarioDff
    /\ now = 25 /\ last.kind = "update"
    /\ last.sigs0["q"].val = 1 /\ sigs["q"].val = 0

\* C14: a modular vector never fails its bounds check and stays within
\* [min, max): its value is the sum of what was added, wrapped into the range;
\* after n increments and nothing else a vector with min = 0 and max = 2^w
\* holds n mod 2^w
C14_Wraps ==
    /\ ~bv.raised
    /\ bv.min <= bv.val /\ bv.val < bv.max
    /\ bv.val = ((bv.sum - bv.min) % (bv.max - bv.min)) + bv.min
    /\ (bv.ticks = bv.steps /\ bv.min = 0) => bv.val = bv.ticks % bv.max

\* width 3, ten clock ticks: the value is 2
C14_Witness ==
    /\ bv.min = 0 /\ bv.max = 8
    /\ bv.ticks = 10 /\ bv.steps = 10
    /\ bv.val = 2

\* C15: once the combinational processes have settled, the output of a
\* scramble is its input XOR its pattern, and the output of a second scramble
\* with the same pattern is the input of the first
C15_Scramble ==
    Settled =>
        /\ sigs["y1a2"].val = BitXor(sigs["A"].val, script.pat1)
        /\ sigs["Y"].val = BitXor(sigs["y1a2"].val, script.pat2)
        /\ script.pat1 = script.pat2 => sigs["Y"].val = sigs["A"].val

\* pattern 0x42 and input 0x7E give 0x3C, and scrambled again 0x7E
C15_Witness ==
    /\ Settled /\ script.pat1 = 66 /\ script.pat2 = 66
    /\ last.kind = "update"
    /\ sigs["A"].val = 126 /\ sigs["y1a2"].val = 60 /\ sigs["Y"].val = 126

\* |x|
Abs(x) == IF x < 0 THEN -x ELSE x

\* C16: a slice assignment v[i:j] = x with i > j >= 0 succeeds only when
\* |x| < 2^(i-j); another x is rejected and leaves v as it was; an accepted x
\* changes no bit of v outside j..i-1
C16_SliceAssign ==
    bv.op = "setslice" =>
        LET fits == Abs(bv.x) < 2^(bv.i - bv.j) IN
        /\ ~bv.raised => fits
        /\ ~fits => (bv.raised /\ bv.val = bv.pre)
        /\ ~bv.raised => /\ bv.val \div 2^bv.i = bv.pre \div 2^bv.i
                         /\ bv.val % 2^bv.j = bv.pre % 2^bv.j

\* C17: signed() of a vector declared with min >= 0 and a width n > 0 is the
\* two's complement reading of its n bits; of any other vector it has the
\* value of the vector; it returns, and the result lies within its own bounds
C17_Signed ==
    obj.kind = "signed" =>
        LET v == obj.of
            r == obj.res
        IN /\ ~r.raised
           /\ (r.hasMin => r.min <= r.val) /\ (r.hasMax => r.val < r.max)
           /\ IF v.hasMin /\ v.min >= 0 /\ v.nrbits > 0
              THEN r.val = IF (v.val \div 2^(v.nrbits - 1)) % 2 = 1
                           THEN v.val - 2^v.nrbits ELSE v.val
              ELSE r.val = v.val

\* the scenario: intbv(5, min=0, max=8) + intbv(-3, min=-4, max=4)
ScenarioAdd ==
    /\ obj.kind = "add"
    /\ obj.a = intbv_new(5, TRUE, 0, TRUE, 8)
    /\ obj.b = intbv_new(-3, TRUE, -4, TRUE, 4)

\* C18 (as amended): adding two bit-vectors, or a bit-vector and an integer,
\* returns a plain integer, the sum of the two values; it is not a bit-vector
\* and carries no width, bounds or signedness
C18_Add ==
    obj.kind = "add" =>
        /\ ~IsIntbv(obj.res)
        /\ obj.res = [val |-> obj.a.val + obj.b.val]

\* C18 as stated: the sum is a new bit-vector; in the scenario it is signed,
\* of width 5, with value 2
C18_Original ==
    obj.kind = "add" =>
        /\ IsIntbv(obj.res)
        /\ ScenarioAdd => /\ obj.res.val = 2
                          /\ obj.res.nrbits = 5
                          /\ intbv_issigned(obj.res)

\* the scenario has run: the result is the integer 2
C18_Witness ==
    /\ ScenarioAdd
    /\ IsIntbv(obj.a) /\ IsIntbv(obj.b) /\ intbv_issigned(obj.b) /\ ~intbv_issigned(obj.a)
    /\ obj.res = [val |-> 2]

\* C19: whatever blocks were instantiated and re-elaborated, the names given
\* out are pairwise different, and each of them is recorded as used
C19_UniqueNames ==
    obj.kind = "blocks" =>
        /\ \A i \in DOMAIN obj.names : \A j \in DOMAIN obj.names :
                i # j => obj.names[i] # obj.names[j]
        /\ obj.name_set = Range(obj.names)

\* f is instantiated, the counters are reset twice, and f is instantiated again
\* each time: the proposed name f0 comes back and gets a new suffix
C19_Witness ==
    /\ obj.kind = "blocks" /\ obj.clears = 2
    /\ Len(obj.names) >= 4
    /\ obj.names[1] = "f0" /\ obj.names[2] = "f0_0"
    /\ obj.names[3] = "f0_0_0" /\ obj.names[4] = "f0_0_1"

\* the value returned holds, at some depth, something that is no process, no
\* sub-block instance and no Cosimulation
RECURSIVE HoldsOther(_)
HoldsOther(x) ==
    IF x.k = "list" THEN \E i \in DOMAIN x.items : HoldsOther(x.items[i])
    ELSE x.k \in {"none", "int", "gen"}

\* C20: when the function of a block returns something else than processes and
\* instances (sub-blocks, co-simulations), also nested in lists or tuples, the
\* construction raises BlockError and the list of block instances is as before
C20_BlockError == [][
        (obj.kind = "build" /\ obj'.ret # [k |-> "none"] /\ HoldsOther(obj'.ret)) =>
            /\ obj'.exc = "BlockError"
            /\ obj'.blocks = obj.blocks
    ]_vars

\* a list whose second member is a tuple holding a process and None: the
\* construction has raised, after a block has been built
C20_Witness ==
    /\ obj.kind = "build" /\ obj.exc = "BlockError"
    /\ Len(obj.blocks) = 1
    /\ obj.ret = [k |-> "list", items |->
                    <<[k |-> "proc"], [k |-> "list", items |-> <<[k |-> "proc"], [k |-> "none"]>>]>>]

\* C21: converting or analysing a block returns a number, which is 0 exactly
\* when the conversion succeeded, and it is 0 for every supported design.
C21_Count ==
    (obj.kind = "conv" /\ obj.ret.api \in {"convert", "analyze_convert", "verify_convert"}
        /\ Supported(obj.ret.func))
    => (obj.ret.outcome = "number" /\ obj.ret.value = 0)

\* C29: whenever no call of a converter is in progress (every call has
\* returned or raised) the re-entrancy flag _converting is 0.
C29_FlagCleared ==
    (obj.kind = "conv" /\ obj.pc = "idle")
    => \A c \in Converters : obj.converting[c] = 0

Dropped(i) == obj.log[i].out = <<>> /\ ~(i = Len(obj.log) /\ obj.err # NoError)
Skipped(n) ==
    \/ n.kind = "Assign" /\ (n.target = "OpenPort" \/ n.value = "listcomp")
    \/ n.kind = "Expr" /\ n.value = "const"

IsRomAssign(i) == obj.log[i].node.kind = "Assign" /\ obj.log[i].node.value = "rom"
Labelled(bs) == {i \in DOMAIN bs : ~bs[i].default}
Defaults(bs) == {i \in DOMAIN bs : bs[i].default}

\* C24 as stated: a list of N constants indexed by a signal is written as a
\* case statement with N labelled branches plus a default branch.
C24_Original ==
    obj.kind = "emit"
    => \A i \in 1 .. Len(obj.log) :
        IsRomAssign(i)
        => /\ Len(obj.log[i].out) = 1
           /\ obj.log[i].out[1].t = "case"
           /\ Cardinality(Labelled(obj.log[i].out[1].branches)) = Len(obj.log[i].node.rom)
           /\ Cardinality(Defaults(obj.log[i].out[1].branches)) = 1

\* C24: a list of N constants indexed by a signal is written as one case
\* statement with N branches: the first N - 1 labelled with their index, the
\* last constant as the default branch; for every index below N the case
\* statement assigns the constant at that index.
C24_RomCase ==
    obj.kind = "emit"
    => \A i \in 1 .. Len(obj.log) :
        IsRomAssign(i)
        => LET rom == obj.log[i].node.rom
               bs == obj.log[i].out[1].branches
           IN /\ Len(obj.log[i].out) = 1
              /\ obj.log[i].out[1].t = "case"
              /\ Len(bs) = Len(rom)
              /\ Cardinality(Labelled(bs)) = Len(rom) - 1
              /\ Defaults(bs) = {Len(rom)}
              /\ \A k \in 1 .. Len(rom) - 1 : bs[k].label = k - 1
              /\ \A sel \in 0 .. Len(rom) - 1 : CaseValue(bs, sel) = rom[sel + 1]

\* the ROM of 8 constants was written, for a signal as target
C24_Witness ==
    /\ obj.kind = "emit"
    /\ Len(obj.log) >= 1
    /\ IsRomAssign(1)
    /\ Len(obj.log[1].node.rom) = 8
    /\ obj.log[1].node.target = "sig"
    /\ CaseValue(obj.log[1].out[1].branches, 5) = 60

\* C25: rejected writes to next leave the pending value alone and queue
\* nothing, so that after any sequence of accepted and rejected writes and
\* updates the current value of an intbv signal is within [min, max).
C25_InRange ==
    (obj.kind = "sig" /\ obj.sig.type = "intbv")
    => (obj.sig.min <= obj.sig.val /\ obj.sig.val < obj.sig.max)

\* C26: when a signal that was queued several times in a delta cycle is
\* updated, no waiter is woken twice, and the current value is the value of
\* the last write (for an intbv signal: provided that write was accepted).
C26_QueuedTwice ==
    (obj.kind = "sig" /\ obj.op = "update" /\ obj.queued >= 2)
    => /\ \A i, j \in DOMAIN obj.woken : obj.woken[i].p = obj.woken[j].p => i = j
       /\ (obj.sig.type # "intbv" \/ obj.lastOk) => obj.sig.val = obj.stored
       /\ obj.sig.val = obj.pre.next

\* a signal written and read in one delta, updated to the written value,
\* with both processes woken
C26_Witness ==
    /\ obj.kind = "sig"
    /\ obj.op = "update"
    /\ obj.queued >= 2
    /\ Len(obj.woken) = 2
    /\ obj.sig.val = 1
    /\ obj.pre.val = 0

\* C27: an update (and the apply of a delayed signal) with next equal to the
\* current value wakes no waiter and leaves the value and the three lists as
\* they were; an update with a change leaves the negedge list alone on a
\* rising edge, the posedge list on a falling edge, and both on a change
\* between two non-zero values.
C27_Frame ==
    (obj.kind = "sig" /\ obj.op = "update")
    => LET pre == obj.pre
           a == DelayedSignal_apply(pre, pre.next, pre.timeStamp)
           rising == ~Truthy(pre.val) /\ Truthy(pre.next)
           falling == Truthy(pre.val) /\ ~Truthy(pre.next)
       IN /\ pre.val = pre.next
             => /\ obj.woken = <<>> /\ obj.sig = pre
                /\ a.waiters = <<>> /\ a.sig = pre
          /\ (pre.val # pre.next /\ ~falling)
             => (obj.sig.neg = pre.neg /\ a.sig.neg = pre.neg)
          /\ (pre.val # pre.next /\ ~rising)
             => (obj.sig.pos = pre.pos /\ a.sig.pos = pre.pos)
          /\ pre.val # pre.next
             => (obj.sig.val = pre.next /\ obj.sig.ev = <<>> /\ a.sig.val = pre.next)

\* an update without a change while a process waits on the signal and
\* another on its negative edge
C27_Witness ==
    /\ obj.kind = "sig"
    /\ obj.op = "update"
    /\ obj.pre.val = obj.pre.next
    /\ obj.pre.val = 1
    /\ obj.pre.ev # <<>>
    /\ obj.pre.neg # <<>>
    /\ obj.sig.ev = obj.pre.ev

\* C28: the delayed signal b has a delay that is not negative; its current
\* value changes, and the observer parked on it is woken, only in the step
\* that fires an apply event, at a time not earlier than the delay after the
\* write that produced the value, and never in the update of the delta cycle
\* of a write.
C28_OnlyApply ==
    /\ [](sigs["b"].delayed => sigs["b"].delay >= 0)
    /\ [][(sigs["b"].delayed
           /\ (sigs'["b"].val # sigs["b"].val
               \/ ((\E i \in DOMAIN waiters_ready' : waiters_ready'[i].p = "p2")
                   /\ ~(\E i \in DOMAIN waiters_ready : waiters_ready[i].p = "p2"))))
          => /\ last'.kind = "apply"
             /\ last'.ev.sig = "b"
             /\ now' = last'.ev.time
             /\ now' >= last'.ev.timeStamp + sigs["b"].delay
             /\ sigs'["b"].val = last'.ev.next]_vars

\* the value written at time 3 to the signal of delay 10 is applied at time 13
C28_Witness ==
    /\ sigs["b"].delayed
    /\ sigs["b"].delay = 10
    /\ last.kind = "apply"
    /\ now = 13
    /\ sigs["b"].val = 1
    /\ last.sigs0["b"].val = 0

====
